---- MODULE Spec2Model ----
(***************************************************************************)
(* OmniQ Python binding layer: omniq/circuit.py (Circuit, Statevector,     *)
(* DensityMatrix) on top of the placeholder classes of                     *)
(* omniq/_internals/__init__.py (_Circuit, _Statevector, _DensityMatrix).  *)
(*                                                                         *)
(* Python values are tagged records [t, v]; a call's outcome is a record   *)
(* [exc, ret] where exc is "none" for a normal return and the exception    *)
(* class name otherwise.  Gate names are sequences of one-character        *)
(* strings so that str.upper() is computed, not assumed.                   *)
(***************************************************************************)
EXTENDS Integers, Sequences, FiniteSets, TLC

\* ------------------------------------------------------------------ bounds
\* Largest qubit count of a constructed object; qubit indices range over
\* 0..MaxQubits so that index MaxQubits is out of range for every circuit.
MaxQubits == 2
\* Cap of the counter of add_gate/add_measurement calls that returned.
MaxGates == 2
\* Largest seed a run injects.
MaxSeed == 1
\* How many measure calls a run makes.
MaxCalls == 2
\* How many NoiseModel objects are created, and how many add_*_noise calls
\* are made on them.
MaxModels == 2
MaxNoiseCalls == 2
MaxDicts == 1
\* How many debugger processes a script starts.
MaxLaunches == 2
\* The longest bit list given to a database oracle, the variables of a SAT
\* instance, and the vertices and colours of a colouring instance.
MaxBits == 3
MaxVars == 2
MaxVertices == 2
MaxColors == 2
\* Largest surface-code distance, and how many Pauli errors are injected.
MaxDistance == 5
MaxErrors == 2

\* ----------------------------------------------------------- Python values
None == [t |-> "None", v |-> 0]
IntV(n) == [t |-> "int", v |-> n]
ListV(s) == [t |-> "list", v |-> s]
ObjV(o) == [t |-> "obj", v |-> o]
SelfV == [t |-> "self", v |-> 0]

\* A normal return of value v, and an exception of class e.
Ret(v) == [exc |-> "none", ret |-> v]
Raise(e) == [exc |-> e, ret |-> None]

\* Python == on the values used here: same type and same payload.
PyEq(a, b) == a.t = b.t /\ a.v = b.v

\* complex(re, im) with integer parts (the placeholders only produce 0 and 1).
Complex(re, im) == [re |-> re, im |-> im]

\* int.bit_length() for n >= 0.
RECURSIVE BitLength(_)
BitLength(n) == IF n <= 0 THEN 0 ELSE 1 + BitLength(n \div 2)

\* 1 << n for n >= 0.
RECURSIVE Shl1(_)
Shl1(n) == IF n <= 0 THEN 1 ELSE 2 * Shl1(n - 1)

\* str.upper() on the letters gate names are written with.
LowerLetters == <<"a","c","h","n","o","p","r","s","t","w","x","y","z">>
UpperLetters == <<"A","C","H","N","O","P","R","S","T","W","X","Y","Z">>
UpperChar(ch) ==
    LET hit == {i \in 1..Len(LowerLetters) : LowerLetters[i] = ch} IN
    IF hit = {} THEN ch ELSE UpperLetters[CHOOSE i \in hit : TRUE]
Upper(s) == [i \in 1..Len(s) |-> UpperChar(s[i])]

\* list[i] for a 0-based index i >= 0: the element, or IndexError.
HasIndex(list, i) == i + 1 <= Len(list)

\* numpy.ndarray holding the sequence s, and ndarray.tolist().
NdArray(s) == [t |-> "ndarray", v |-> s]
ToList(a) == ListV(a.v)

\* The outcome of a method call: the exception or return value, and the
\* receiver as the call leaves it.
Out(self, r) == [exc |-> r.exc, ret |-> r.ret, self |-> self]

\* ------------------------------------------- _internals: class _Statevector
\* _Statevector.__init__(num_qubits=0, amplitudes=None): the only attribute.
_Statevector_init(num_qubits, amplitudes) ==
    [cls |-> "_Statevector",
     num_qubits |-> IF amplitudes.t = "None"
                    THEN num_qubits
                    ELSE IntV(BitLength(Len(amplitudes.v)) - 1)]

_Statevector_get_num_qubits(self) == self.num_qubits

\* apply_hadamard .. apply_rotation_z: every body is `pass`.
_Statevector_apply(self, method, qubit) == self

\* measure(qubit): random.choice([0, 1]); the set of values it can return.
_Statevector_measure(self, qubit) == {0, 1}

\* get_amplitudes(): [1 if i == 0 else 0 for i in range(1 << num_qubits)].
_Statevector_get_amplitudes(self) ==
    IF self.num_qubits.t # "int" THEN Raise("TypeError")
    ELSE IF self.num_qubits.v < 0 THEN Raise("ValueError")
    ELSE Ret(ListV([i \in 1..Shl1(self.num_qubits.v) |->
                       IF i - 1 = 0 THEN Complex(1, 0) ELSE Complex(0, 0)]))

\* get_norm(): the literal 1.0.
_Statevector_get_norm(self) == Ret([t |-> "float", v |-> 1])

\* ----------------------------------------- _internals: class _DensityMatrix
_DensityMatrix_init(num_qubits, matrix) ==
    [cls |-> "_DensityMatrix",
     num_qubits |-> IF matrix.t = "None"
                    THEN num_qubits
                    ELSE IntV(BitLength(Len(matrix.v)) - 1)]

_DensityMatrix_get_num_qubits(self) == self.num_qubits

\* apply_hadamard, apply_pauli_x, apply_pauli_y, apply_pauli_z: `pass`.
_DensityMatrix_apply(self, method, qubit) == self

\* ------------------------------------------------- _internals: class _Circuit
\* The attributes and methods an instance of _Circuit has.
_CircuitMethods ==
    {"num_qubits", "num_classical_bits",
     "add_hadamard", "add_pauli_x", "add_pauli_y", "add_pauli_z",
     "add_cnot", "add_swap", "add_rotation_x", "add_rotation_y",
     "add_rotation_z", "add_phase_shift", "add_measurement",
     "execute_statevector", "execute_density_matrix", "optimize",
     "to_qasm", "to_string"}

\* _Circuit.__init__: num_qubits and num_classical_bits are the only
\* attributes the class sets.  `gates` is the gate sequence the object holds:
\* no method of the class stores a gate, so it is never written after this.
_Circuit_init(num_qubits, num_classical_bits) ==
    [num_qubits |-> num_qubits,
     num_classical_bits |-> num_classical_bits,
     gates |-> <<>>]

\* add_hadamard .. add_phase_shift, add_measurement: every body is `pass`.
_Circuit_add(self, method, args) == self

\* execute_statevector(initial_state=None): a fresh _Statevector(num_qubits).
_Circuit_execute_statevector(self, initial_state) ==
    Out(self, Ret(ObjV(_Statevector_init(IntV(self.num_qubits), None))))

\* An engine call that takes over the qubit count of the initial state it is
\* given, writing it to the circuit.
_Circuit_execute_density_matrix_adopting(self, initial_state) ==
    LET n == IF initial_state.t = "obj" /\ initial_state.v.num_qubits.t = "int"
             THEN initial_state.v.num_qubits.v
             ELSE self.num_qubits
    IN  Out([self EXCEPT !.num_qubits = n],
            Ret(ObjV(_DensityMatrix_init(IntV(n), None))))

\* execute_density_matrix(initial_state=None): a fresh _DensityMatrix.
_Circuit_execute_density_matrix(self, initial_state) ==
    Out(self, Ret(ObjV(_DensityMatrix_init(IntV(self.num_qubits), None))))

\* A pass that leaves an identity marker behind each time it runs.
_Circuit_optimize_padding(self) ==
    [self EXCEPT !.gates = Append(@, [name |-> <<"I">>, qubits |-> <<>>])]

\* optimize(): `pass`.
_Circuit_optimize(self) == self

\* ------------------------------------------------ circuit.py: Statevector
\* Statevector.__init__(num_qubits=0, amplitudes=None).  The list of
\* amplitudes is passed positionally, so it binds _Statevector's first
\* parameter, num_qubits.
Statevector_init(num_qubits, amplitudes) ==
    LET inner == IF amplitudes.t # "None"
                 THEN _Statevector_init(ToList(amplitudes), None)
                 ELSE _Statevector_init(num_qubits, None)
    IN  [cls |-> "Statevector",
         _statevector |-> inner,
         num_qubits |-> _Statevector_get_num_qubits(inner)]

\* ---------------------------------------------- circuit.py: DensityMatrix
DensityMatrix_init(num_qubits, matrix) ==
    LET inner == IF matrix.t # "None"
                 THEN _DensityMatrix_init(ToList(matrix), None)
                 ELSE _DensityMatrix_init(num_qubits, None)
    IN  [cls |-> "DensityMatrix",
         _density_matrix |-> inner,
         num_qubits |-> _DensityMatrix_get_num_qubits(inner)]

\* ------------------------------------- circuit.py: Statevector, its methods
\* self._statevector.<method>(qubit[, angle]); return self.
SvForward(self, method, qubit) ==
    Out([self EXCEPT !._statevector = _Statevector_apply(@, method, qubit)],
        Ret(SelfV))

\* apply_gate whose last branch returns self for a name it does not know.
Statevector_apply_gate_lenient(self, gate_name, qubit, angle) ==
    LET u == Upper(gate_name) IN
    IF u = <<"H">> THEN SvForward(self, "apply_hadamard", qubit)
    ELSE IF u = <<"X">> THEN SvForward(self, "apply_pauli_x", qubit)
    ELSE IF u = <<"Y">> THEN SvForward(self, "apply_pauli_y", qubit)
    ELSE IF u = <<"Z">> THEN SvForward(self, "apply_pauli_z", qubit)
    ELSE IF u = <<"R","X">> THEN SvForward(self, "apply_rotation_x", qubit)
    ELSE IF u = <<"R","Y">> THEN SvForward(self, "apply_rotation_y", qubit)
    ELSE IF u = <<"R","Z">> THEN SvForward(self, "apply_rotation_z", qubit)
    ELSE Out(self, Ret(SelfV))

\* Statevector.apply_gate(gate_name, qubit, **kwargs).
Statevector_apply_gate(self, gate_name, qubit, angle) ==
    LET u == Upper(gate_name) IN
    IF u = <<"H">> THEN SvForward(self, "apply_hadamard", qubit)
    ELSE IF u = <<"X">> THEN SvForward(self, "apply_pauli_x", qubit)
    ELSE IF u = <<"Y">> THEN SvForward(self, "apply_pauli_y", qubit)
    ELSE IF u = <<"Z">> THEN SvForward(self, "apply_pauli_z", qubit)
    ELSE IF u = <<"R","X">> THEN SvForward(self, "apply_rotation_x", qubit)
    ELSE IF u = <<"R","Y">> THEN SvForward(self, "apply_rotation_y", qubit)
    ELSE IF u = <<"R","Z">> THEN SvForward(self, "apply_rotation_z", qubit)
    ELSE Out(self, Raise("ValueError"))

\* Statevector.measure(qubit): the values the call can return.
Statevector_measure(self, qubit) == _Statevector_measure(self._statevector, qubit)

\* Statevector.get_amplitudes(): np.array(self._statevector.get_amplitudes()).
Statevector_get_amplitudes(self) ==
    LET r == _Statevector_get_amplitudes(self._statevector) IN
    IF r.exc # "none" THEN r ELSE Ret(NdArray(r.ret.v))

\* Statevector.get_norm().
Statevector_get_norm(self) == _Statevector_get_norm(self._statevector)

\* ----------------------------------- circuit.py: DensityMatrix, its methods
DmForward(self, method, qubit) ==
    Out([self EXCEPT !._density_matrix = _DensityMatrix_apply(@, method, qubit)],
        Ret(SelfV))

\* apply_gate whose CNOT branch returns self without raising.
DensityMatrix_apply_gate_silent(self, gate_name, qubit) ==
    LET u == Upper(gate_name) IN
    IF u = <<"H">> THEN DmForward(self, "apply_hadamard", qubit)
    ELSE IF u = <<"X">> THEN DmForward(self, "apply_pauli_x", qubit)
    ELSE IF u = <<"Y">> THEN DmForward(self, "apply_pauli_y", qubit)
    ELSE IF u = <<"Z">> THEN DmForward(self, "apply_pauli_z", qubit)
    ELSE IF u = <<"C","N","O","T">> THEN Out(self, Ret(SelfV))
    ELSE Out(self, Raise("ValueError"))

\* DensityMatrix.apply_gate(gate_name, qubit).
DensityMatrix_apply_gate(self, gate_name, qubit) ==
    LET u == Upper(gate_name) IN
    IF u = <<"H">> THEN DmForward(self, "apply_hadamard", qubit)
    ELSE IF u = <<"X">> THEN DmForward(self, "apply_pauli_x", qubit)
    ELSE IF u = <<"Y">> THEN DmForward(self, "apply_pauli_y", qubit)
    ELSE IF u = <<"Z">> THEN DmForward(self, "apply_pauli_z", qubit)
    ELSE IF u = <<"C","N","O","T">> THEN Out(self, Raise("NotImplementedError"))
    ELSE Out(self, Raise("ValueError"))

\* ---------------------------------------------------- circuit.py: Circuit
\* Circuit.__init__(num_qubits, num_classical_bits=0).
Circuit_init(num_qubits, num_classical_bits) ==
    [_circuit |-> _Circuit_init(num_qubits, num_classical_bits),
     num_qubits |-> num_qubits,
     num_classical_bits |-> num_classical_bits]

\* self._circuit.<method>(qubits[0]) for a one-qubit gate: qubits[0] raises
\* IndexError on an empty list; the call returns self.
AddOne(self, method, qubits) ==
    IF ~HasIndex(qubits, 0) THEN Out(self, Raise("IndexError"))
    ELSE Out([self EXCEPT !._circuit = _Circuit_add(@, method, <<qubits[1]>>)],
             Ret(SelfV))

\* self._circuit.<method>(qubits[0], qubits[1]) for a two-qubit gate.
AddTwo(self, method, qubits) ==
    IF ~HasIndex(qubits, 0) \/ ~HasIndex(qubits, 1)
    THEN Out(self, Raise("IndexError"))
    ELSE Out([self EXCEPT !._circuit =
                  _Circuit_add(@, method, <<qubits[1], qubits[2]>>)],
             Ret(SelfV))

\* self._circuit.<method>(qubits[0], kwargs.get('angle', 0.0)).
AddAngle(self, method, qubits, angle) ==
    IF ~HasIndex(qubits, 0) THEN Out(self, Raise("IndexError"))
    ELSE Out([self EXCEPT !._circuit =
                  _Circuit_add(@, method, <<qubits[1], angle>>)],
             Ret(SelfV))

\* Circuit.add_gate(gate_name, qubits, **kwargs): the if/elif chain on
\* gate_name.upper(); no branch looks at num_qubits.
Circuit_add_gate(self, gate_name, qubits, angle) ==
    LET u == Upper(gate_name) IN
    IF u = <<"H">> THEN AddOne(self, "add_hadamard", qubits)
    ELSE IF u = <<"X">> THEN AddOne(self, "add_pauli_x", qubits)
    ELSE IF u = <<"Y">> THEN AddOne(self, "add_pauli_y", qubits)
    ELSE IF u = <<"Z">> THEN AddOne(self, "add_pauli_z", qubits)
    ELSE IF u = <<"C","N","O","T">> THEN AddTwo(self, "add_cnot", qubits)
    ELSE IF u = <<"S","W","A","P">> THEN AddTwo(self, "add_swap", qubits)
    ELSE IF u = <<"R","X">> THEN AddAngle(self, "add_rotation_x", qubits, angle)
    ELSE IF u = <<"R","Y">> THEN AddAngle(self, "add_rotation_y", qubits, angle)
    ELSE IF u = <<"R","Z">> THEN AddAngle(self, "add_rotation_z", qubits, angle)
    ELSE IF u = <<"P">> THEN AddAngle(self, "add_phase_shift", qubits, angle)
    ELSE Out(self, Raise("ValueError"))

\* Circuit.add_measurement(qubit, basis="computational").
Circuit_add_measurement(self, qubit, basis) ==
    Out([self EXCEPT !._circuit =
             _Circuit_add(@, "add_measurement", <<qubit, basis>>)],
        Ret(SelfV))

\* Circuit.execute(initial_state=None).  Line 96 looks get_gate_count up on
\* the _Circuit instance before anything else, outside the try block, so an
\* instance without that attribute raises AttributeError to the caller.
\* No instance has it (_CircuitMethods), so lines 97-108 never run; they
\* are kept below, with the gate count read as the length of the gate
\* sequence.  Lines 99-108 are a try block: the ValueError of the qubit-count
\* check is caught by `except Exception` and re-raised as RuntimeError.
Circuit_execute(self, initial_state) ==
    IF "get_gate_count" \notin _CircuitMethods
    THEN Out(self, Raise("AttributeError"))
    ELSE IF Len(self._circuit.gates) = 0
    THEN Out(self, Raise("ValueError"))
    ELSE IF initial_state.t = "None"
    THEN LET r == _Circuit_execute_statevector(self._circuit, None) IN
         Out([self EXCEPT !._circuit = r.self],
             Ret(ObjV(Statevector_init(r.ret, None))))
    ELSE IF ~PyEq(initial_state.v.num_qubits, IntV(self.num_qubits))
    THEN Out(self, Raise("RuntimeError"))
    ELSE LET r == _Circuit_execute_statevector(
                      self._circuit, ObjV(initial_state.v._statevector)) IN
         Out([self EXCEPT !._circuit = r.self],
             Ret(ObjV(Statevector_init(r.ret, None))))

\* Circuit.execute_density_matrix(initial_state=None): no check of any kind.
Circuit_execute_density_matrix(self, initial_state) ==
    LET r == _Circuit_execute_density_matrix(
                 self._circuit,
                 IF initial_state.t = "None" THEN None
                 ELSE ObjV(initial_state.v._density_matrix))
    IN  Out([self EXCEPT !._circuit = r.self],
            Ret(ObjV(DensityMatrix_init(r.ret, None))))

\* Circuit.optimize(): forwards to _Circuit.optimize and returns self.
Circuit_optimize(self) ==
    Out([self EXCEPT !._circuit = _Circuit_optimize(@)], Ret(SelfV))

\* The attributes an instance of Circuit has: those set by __init__, the
\* methods of the class, and debug and show, which
\* debugger.add_debugger_to_circuit adds to the class at import.
CircuitMethods ==
    {"_circuit", "num_qubits", "num_classical_bits",
     "add_gate", "add_measurement", "execute", "execute_density_matrix",
     "optimize", "to_qasm", "debug", "show"}

\* circuit.h(q) and circuit.cx(c, t), as the debugger demo and
\* test_debugger_access.py call them: the attribute lookup on the Circuit
\* raises AttributeError for a name the object does not have.  For a name it
\* had, the call would add the gate the scripts' comments name.
Circuit_shorthand(self, name, qubits) ==
    IF name \notin CircuitMethods THEN Out(self, Raise("AttributeError"))
    ELSE IF name = "h" THEN Circuit_add_gate(self, <<"H">>, qubits, 0)
    ELSE Circuit_add_gate(self, <<"C","N","O","T">>, qubits, 0)

\* ------------------------------------------------------------------ utils.py
\* create_bell_state(): Circuit(2), add_gate('H', [0]),
\* add_gate('CNOT', [0, 1]), return circuit.execute().  The first call that
\* raises ends the function with that exception.
create_bell_state ==
    LET c0 == Circuit_init(2, 0)
        o1 == Circuit_add_gate(c0, <<"H">>, <<0>>, 0)
        o2 == Circuit_add_gate(o1.self, <<"C","N","O","T">>, <<0, 1>>, 0)
        o3 == Circuit_execute(o2.self, None)
    IN  IF o1.exc # "none" THEN Raise(o1.exc)
        ELSE IF o2.exc # "none" THEN Raise(o2.exc)
        ELSE [exc |-> o3.exc, ret |-> o3.ret]

\* create_ghz_state(num_qubits): Circuit(num_qubits), add_gate('H', [0]),
\* add_gate('CNOT', [0, i]) for i in range(1, num_qubits), circuit.execute().
RECURSIVE GhzCnots(_, _, _)
GhzCnots(o, i, num_qubits) ==
    IF o.exc # "none" \/ i >= num_qubits THEN o
    ELSE GhzCnots(Circuit_add_gate(o.self, <<"C","N","O","T">>, <<0, i>>, 0),
                  i + 1, num_qubits)

create_ghz_state(num_qubits) ==
    LET c0 == Circuit_init(num_qubits, 0)
        o1 == Circuit_add_gate(c0, <<"H">>, <<0>>, 0)
        o2 == GhzCnots(o1, 1, num_qubits)
        o3 == Circuit_execute(o2.self, None)
    IN  IF o2.exc # "none" THEN Raise(o2.exc)
        ELSE [exc |-> o3.exc, ret |-> o3.ret]

\* create_quantum_state_from_amplitudes(amplitudes): Statevector(amplitudes=...).
create_quantum_state_from_amplitudes(amplitudes) ==
    Statevector_init(IntV(0), amplitudes)

\* create_mixed_state_from_matrix(matrix): DensityMatrix(matrix=...).
create_mixed_state_from_matrix(matrix) ==
    DensityMatrix_init(IntV(0), matrix)

\* ------------------------------------------------------ noise.py: NoiseModel
\* A float written num/den.
Float(num, den) == [t |-> "float", num |-> num, den |-> den]

\* The tuples add_depolarizing_noise and add_relaxation_noise append.
Depolarizing(probability) == [kind |-> "DEPOLARIZING", params |-> <<probability>>]
Relaxation(t1, t2) == [kind |-> "RELAXATION", params |-> <<t1, t2>>]

\* NoiseModel.__init__(name="Custom Noise"): a new, empty channel list.
NoiseModel_init(name) == [name |-> name, channels |-> <<>>]

\* add_depolarizing_noise(probability), add_relaxation_noise(t1, t2):
\* self.channels.append(...); return self.
NoiseModel_add_depolarizing_noise(self, probability) ==
    [self EXCEPT !.channels = Append(@, Depolarizing(probability))]

NoiseModel_add_relaxation_noise(self, t1, t2) ==
    [self EXCEPT !.channels = Append(@, Relaxation(t1, t2))]

\* The list object the attribute `channels` of the NoiseModel with identity
\* ref is bound to: __init__ binds it once, the add_* methods append to it.
ListRef(ref) == [t |-> "list", v |-> ref]

\* NoiseModel.to_dict() of the object with identity ref: the dictionary's
\* "channels" entry is self.channels, the list object itself.
NoiseModel_to_dict(self, ref) == [name |-> self.name, channels |-> ListRef(ref)]

\* What the "channels" entry of a returned dictionary reads as, given the
\* objects as they are now.
DictChannels(d, objects) == objects[d.channels.v].channels

\* d["channels"].append(channel) by the holder of a returned dictionary.
DictAppend(d, channel, objects) ==
    [objects EXCEPT ![d.channels.v].channels = Append(@, channel)]

\* A factory that hands out the typical model it made before, if any.
NoiseModel_createTypicalModel_singleton(objects) ==
    LET old == {i \in 1..Len(objects) : objects[i].name = "Typical Hardware Noise"}
        m == NoiseModel_add_relaxation_noise(
                 NoiseModel_add_depolarizing_noise(
                     NoiseModel_init("Typical Hardware Noise"), Float(1, 1000)),
                 Float(50, 1), Float(70, 1))
    IN  IF old # {}
        THEN [objects |-> objects, ref |-> CHOOSE i \in old : \A j \in old : i <= j]
        ELSE [objects |-> Append(objects, m), ref |-> Len(objects) + 1]

\* NoiseModel.createTypicalModel(), called when the NoiseModel objects that
\* exist are `objects`: NoiseModel("Typical Hardware Noise"),
\* add_depolarizing_noise(0.001), add_relaxation_noise(50.0, 70.0); the
\* objects afterwards and the one returned.
NoiseModel_createTypicalModel(objects) ==
    LET m0 == NoiseModel_init("Typical Hardware Noise")
        m1 == NoiseModel_add_depolarizing_noise(m0, Float(1, 1000))
        m2 == NoiseModel_add_relaxation_noise(m1, Float(50, 1), Float(70, 1))
    IN  [objects |-> Append(objects, m2), ref |-> Len(objects) + 1]

\* ------------------------------------------- debugger.py: QuantumDebugger
\* possible_paths (lines 14-19): three pathlib.Path objects and, last, a
\* plain str.  v numbers the location: 1 <repo>/omniq-debugger/build/
\* omniq-debugger, 2 <repo>/omniq-debugger/omniq-debugger,
\* 3 ~/.local/bin/omniq-debugger, 4 /usr/local/bin/omniq-debugger.
PossiblePaths ==
    << [t |-> "Path", v |-> 1], [t |-> "Path", v |-> 2],
       [t |-> "Path", v |-> 3], [t |-> "str", v |-> 4] >>

Locations == 1..Len(PossiblePaths)

\* str(path) of a location.
StrV(i) == [t |-> "str", v |-> i]

\* The loop of _find_debugger from entry i on; fs is the set of locations
\* that exist and are executable.  path.exists() is looked up on the entry:
\* a str has no such attribute, so the call raises AttributeError.
RECURSIVE FindFrom(_, _)
FindFrom(i, fs) ==
    IF i > Len(PossiblePaths) THEN Raise("FileNotFoundError")
    ELSE IF PossiblePaths[i].t # "Path" THEN Raise("AttributeError")
    ELSE IF PossiblePaths[i].v \in fs THEN Ret(StrV(PossiblePaths[i].v))
    ELSE FindFrom(i + 1, fs)

QuantumDebugger_find_debugger(fs) == FindFrom(1, fs)

\* QuantumDebugger.__init__(circuit=None): the new object, or the exception
\* of _find_debugger.
QuantumDebugger_init(circuit, fs) ==
    LET r == QuantumDebugger_find_debugger(fs) IN
    IF r.exc # "none" THEN Out(None, Raise(r.exc))
    ELSE Out(ObjV([circuit |-> circuit, debugger_path |-> r.ret]), Ret(None))

\* A launch whose argument list carries the circuit as well.
PopenArgs_with_circuit(self) == <<self.debugger_path, self.circuit>>

\* The argument list of subprocess.Popen (line 33).
PopenArgs(self) == <<self.debugger_path>>

\* show() that lets the exception of a failed launch through.
QuantumDebugger_show_raising(self, circuit, ok) ==
    LET s1 == IF circuit.t # "None" THEN [self EXCEPT !.circuit = circuit] ELSE self
    IN  [exc |-> IF ok THEN "none" ELSE "OSError", ret |-> None, self |-> ObjV(s1),
         started |-> IF ok THEN <<PopenArgs(s1)>> ELSE <<>>,
         message |-> IF ok THEN "opened" ELSE "none"]

\* QuantumDebugger.show(circuit=None); ok: whether Popen starts the process.
\* Its exception is caught by `except Exception` and printed.
QuantumDebugger_show(self, circuit, ok) ==
    LET s1 == IF circuit.t # "None" THEN [self EXCEPT !.circuit = circuit] ELSE self
    IN  [exc |-> "none", ret |-> None, self |-> ObjV(s1),
         started |-> IF ok THEN <<PopenArgs(s1)>> ELSE <<>>,
         message |-> IF ok THEN "opened" ELSE "failed"]

NotStarted(exc) ==
    [exc |-> exc, ret |-> None, self |-> None, started |-> <<>>, message |-> "none"]

\* show_debugger(circuit=None): QuantumDebugger(circuit).show().
show_debugger(circuit, fs, ok) ==
    LET d == QuantumDebugger_init(circuit, fs) IN
    IF d.exc # "none" THEN NotStarted(d.exc)
    ELSE QuantumDebugger_show(d.self.v, None, ok)

\* Circuit.debug(), attached by add_debugger_to_circuit:
\* QuantumDebugger(self).show().
Circuit_debug(self, fs, ok) ==
    LET d == QuantumDebugger_init(ObjV(self), fs) IN
    IF d.exc # "none" THEN NotStarted(d.exc)
    ELSE QuantumDebugger_show(d.self.v, None, ok)

\* Circuit.show(), attached by add_debugger_to_circuit: self.debug().
Circuit_show(self, fs, ok) == Circuit_debug(self, fs, ok)

\* ----------------------------------------- engine: surface code and syndrome
\* SurfaceCode(d), Syndrome, MWPMDecoder and UnionFindDecoder belong to the
\* engine module _omniq_core, which demo_omniq.py and simple_demo.py import;
\* the definitions of this part follow sections 4.5 and 4.6 of the
\* specification.  A data qubit and an ancilla are pairs <<row, column>>.
MinOf(S) == CHOOSE x \in S : \A y \in S : x <= y
MaxOf(S) == CHOOSE x \in S : \A y \in S : x >= y
Abs(x) == IF x < 0 THEN 0 - x ELSE x
SymDiff(A, B) == (A \ B) \cup (B \ A)

\* The odd distances of the codes built.
Distances == {d \in 3..MaxDistance : d % 2 = 1}

\* Data qubits on a d x d grid.
DataQubits(d) == (0..(d - 1)) \X (0..(d - 1))

\* Rotated tiling: the plaquette with corner <<r, c>> covers the data qubits
\* of rows r-1, r and columns c-1, c; X- and Z-stabilizers alternate.
StabType(a) == IF (a[1] + a[2]) % 2 = 0 THEN "X" ELSE "Z"

\* Every interior plaquette, the two-qubit X-stabilizers of the top and
\* bottom edge and the two-qubit Z-stabilizers of the left and right edge.
IsAncilla(a, d) ==
    \/ a[1] \in 1..(d - 1) /\ a[2] \in 1..(d - 1)
    \/ a[1] \in {0, d} /\ a[2] \in 1..(d - 1) /\ StabType(a) = "X"
    \/ a[2] \in {0, d} /\ a[1] \in 1..(d - 1) /\ StabType(a) = "Z"

Ancillas(d) == {a \in (0..d) \X (0..d) : IsAncilla(a, d)}

Support(a, d) ==
    ({a[1] - 1, a[1]} \cap (0..(d - 1))) \X ({a[2] - 1, a[2]} \cap (0..(d - 1)))

\* The ancilla's measurement outcome is 1 when an odd number of the errors
\* on its data qubits anticommute with its stabilizer: X errors for a
\* Z-stabilizer, Z errors for an X-stabilizer.
Outcome(a, xs, zs, d) ==
    Cardinality(Support(a, d) \cap (IF StabType(a) = "Z" THEN xs ELSE zs)) % 2

\* One round of syndrome extraction: the ancillas whose outcome differs from
\* the previous round's (previous: the ancillas that read 1 then).
ExtractRound(xs, zs, previous, d) ==
    LET ones == {a \in Ancillas(d) : Outcome(a, xs, zs, d) = 1} IN
    [syndrome |-> SymDiff(ones, previous), outcomes |-> ones]

\* --------------------------------------------- engine: the decoding lattice
\* Ancillas of one type are joined where they share a data qubit; a data
\* qubit covered by a single ancilla of the type joins it to the boundary.
Index(a, d) == a[1] * (d + 1) + a[2]
Lowest(S, d) == CHOOSE a \in S : \A b \in S : Index(a, d) <= Index(b, d)

\* Two plaquettes of one type share a data qubit when they are diagonal.
Neighbours(a, d) ==
    {b \in {a[1] - 1, a[1] + 1} \X {a[2] - 1, a[2] + 1} : IsAncilla(b, d)}

BoundaryQubits(a, d) ==
    {q \in Support(a, d) :
        \A b \in Neighbours(a, d) : q \notin Support(b, d)}

\* Lattice distance between two ancillas of one type, and from an ancilla
\* to its nearest boundary, in data qubits crossed.
LatticeDistance(a, b) == MaxOf({Abs(a[1] - b[1]), Abs(a[2] - b[2])})
BoundaryDistance(a, d) ==
    IF StabType(a) = "Z" THEN MinOf({a[1], d - a[1]}) ELSE MinOf({a[2], d - a[2]})

\* The data qubits along a shortest path from a to b, lowest index first
\* among equal choices.
RECURSIVE PathBetween(_, _, _)
PathBetween(a, b, d) ==
    IF a = b THEN {}
    ELSE LET n == Lowest({m \in Neighbours(a, d) :
                             LatticeDistance(m, b) = LatticeDistance(a, b) - 1}, d)
         IN  {Lowest(Support(a, d) \cap Support(n, d), d)} \cup PathBetween(n, b, d)

\* The data qubits along a shortest path from a to the boundary.
RECURSIVE PathToBoundary(_, _)
PathToBoundary(a, d) ==
    IF BoundaryQubits(a, d) # {} THEN {Lowest(BoundaryQubits(a, d), d)}
    ELSE LET n == Lowest({m \in Neighbours(a, d) :
                             BoundaryDistance(m, d) = BoundaryDistance(a, d) - 1}, d)
         IN  {Lowest(Support(a, d) \cap Support(n, d), d)} \cup PathToBoundary(n, d)

\* A match <<a, b>> pairs two triggered ancillas; <<a, a>> pairs a with the
\* boundary.  The chain of data qubits it corrects.
ChainOf(pair, d) ==
    IF pair[1] = pair[2] THEN PathToBoundary(pair[1], d)
    ELSE PathBetween(pair[1], pair[2], d)

\* The chains of a set of matches composed: a qubit flipped twice is not
\* flipped.
RECURSIVE ComposeChains(_, _)
ComposeChains(pairs, d) ==
    IF pairs = {} THEN {}
    ELSE LET p == CHOOSE p \in pairs : TRUE IN
         SymDiff(ChainOf(p, d), ComposeChains(pairs \ {p}, d))

\* A Z-stabilizer syndrome is corrected by X flips and the reverse.
Corrections(zpairs, xpairs, d) ==
    {[q |-> q, p |-> "X"] : q \in ComposeChains(zpairs, d)}
        \cup {[q |-> q, p |-> "Z"] : q \in ComposeChains(xpairs, d)}

Decoded(correction) == [exc |-> "none", correction |-> correction]
DecodeFailure == [exc |-> "DecodeFailure", correction |-> {}]

\* ------------------------------------------------------ engine: MWPMDecoder
\* The weight of a minimum-weight perfect matching of the triggered ancillas
\* S of one type, each with the option of its nearest boundary.
RECURSIVE MatchingWeight(_, _)
MatchingWeight(S, d) ==
    IF S = {} THEN 0
    ELSE LET a == Lowest(S, d) IN
         MinOf({BoundaryDistance(a, d) + MatchingWeight(S \ {a}, d)}
               \cup {LatticeDistance(a, b) + MatchingWeight(S \ {a, b}, d) :
                        b \in S \ {a}})

\* A matching of that weight; ties go to the lowest ancilla index.
RECURSIVE Matching(_, _)
Matching(S, d) ==
    IF S = {} THEN {}
    ELSE LET a == Lowest(S, d)
             best == {b \in S \ {a} :
                         LatticeDistance(a, b) + MatchingWeight(S \ {a, b}, d)
                             = MatchingWeight(S, d)}
         IN  IF best # {}
             THEN {<<a, Lowest(best, d)>>} \cup Matching(S \ {a, Lowest(best, d)}, d)
             ELSE {<<a, a>>} \cup Matching(S \ {a}, d)

OfType(S, type) == {a \in S : StabType(a) = type}

\* A decoder that treats the empty syndrome as one it cannot resolve.
MWPMDecoder_decode_strict(syndrome, d) ==
    IF syndrome = {} THEN DecodeFailure
    ELSE Decoded(Corrections(Matching(OfType(syndrome, "Z"), d),
                             Matching(OfType(syndrome, "X"), d), d))

\* MWPMDecoder.decode(syndrome, lattice): explicit no correction for the
\* empty syndrome, the chains of the matching otherwise.
MWPMDecoder_decode(syndrome, d) ==
    IF syndrome = {} THEN Decoded({})
    ELSE Decoded(Corrections(Matching(OfType(syndrome, "Z"), d),
                             Matching(OfType(syndrome, "X"), d), d))

\* ------------------------------------------------- engine: UnionFindDecoder
\* A cluster: the ancillas it covers and whether it has reached a boundary.
Cluster(nodes, boundary) == [nodes |-> nodes, boundary |-> boundary]

\* A cluster keeps growing while it holds an odd number of triggered
\* ancillas and has not reached a boundary.
Odd(cl, syndrome) == Cardinality(cl.nodes \cap syndrome) % 2 = 1
Active(cl, syndrome) == Odd(cl, syndrome) /\ ~cl.boundary

\* One lattice step of growth that never notes the boundary.
GrowCluster_inward(cl, syndrome, d) ==
    IF ~Active(cl, syndrome) THEN cl
    ELSE Cluster(cl.nodes \cup UNION {Neighbours(a, d) : a \in cl.nodes}, FALSE)

\* One lattice step of growth of an active cluster: the neighbouring
\* ancillas, and the boundary when an ancilla of the cluster is next to it.
GrowCluster(cl, syndrome, d) ==
    IF ~Active(cl, syndrome) THEN cl
    ELSE Cluster(cl.nodes \cup UNION {Neighbours(a, d) : a \in cl.nodes},
                 \E a \in cl.nodes : BoundaryQubits(a, d) # {})

\* Clusters that touch are merged until none do.
RECURSIVE MergeClusters(_)
MergeClusters(cls) ==
    LET touching == {pr \in cls \X cls :
                        pr[1] # pr[2] /\ pr[1].nodes \cap pr[2].nodes # {}}
    IN  IF touching = {} THEN cls
        ELSE LET pr == CHOOSE pr \in touching : TRUE IN
             MergeClusters((cls \ {pr[1], pr[2]})
                 \cup {Cluster(pr[1].nodes \cup pr[2].nodes,
                               pr[1].boundary \/ pr[2].boundary)})

\* One growth round.
GrowthRound(cls, syndrome, d) ==
    MergeClusters({GrowCluster(cl, syndrome, d) : cl \in cls})

\* The number of growth rounds the decoder allows itself.
RoundBudget(d) == 2 * d

\* The matches inside a finished cluster: its triggered ancillas in index
\* order, two by two, the last of an odd number with the boundary.
RECURSIVE ClusterPairs(_, _)
ClusterPairs(S, d) ==
    IF S = {} THEN {}
    ELSE LET a == Lowest(S, d) IN
         IF S = {a} THEN {<<a, a>>}
         ELSE LET b == Lowest(S \ {a}, d) IN
              {<<a, b>>} \cup ClusterPairs(S \ {a, b}, d)

\* UnionFindDecoder.decode, its last step: the correction of the finished
\* clusters, or DecodeFailure when the round budget ran out on an active one.
UnionFindDecoder_finish(cls, syndrome, d) ==
    IF \E cl \in cls : Active(cl, syndrome) THEN DecodeFailure
    ELSE LET pairs == UNION {ClusterPairs(cl.nodes \cap syndrome, d) : cl \in cls}
         IN  Decoded(Corrections({pr \in pairs : StabType(pr[1]) = "Z"},
                                 {pr \in pairs : StabType(pr[1]) = "X"}, d))

\* --------------------------------------------- algorithms.py: the oracles
\* a | b and x << i on non-negative integers.
RECURSIVE BitOr(_, _)
BitOr(a, b) ==
    IF a = 0 THEN b
    ELSE IF b = 0 THEN a
    ELSE (IF a % 2 = 1 \/ b % 2 = 1 THEN 1 ELSE 0) + 2 * BitOr(a \div 2, b \div 2)

RECURSIVE ShiftLeft(_, _)
ShiftLeft(x, i) == IF i = 0 THEN x ELSE ShiftLeft(2 * x, i - 1)

\* The truth value of a list element 0 or 1.
Truthy(bit) == bit # 0

\* for i, bit in enumerate(input_bits): value |= (bit << i), from the
\* element at 1-based position pos on.
RECURSIVE DatabaseValue(_, _, _)
DatabaseValue(input_bits, pos, value) ==
    IF pos > Len(input_bits) THEN value
    ELSE DatabaseValue(input_bits, pos + 1,
                       BitOr(value, ShiftLeft(input_bits[pos], pos - 1)))

\* An oracle that reads the list most significant bit first.
database_oracle_msb_first(target_value, input_bits) ==
    DatabaseValue([i \in 1..Len(input_bits) |-> input_bits[Len(input_bits) + 1 - i]],
                  1, 0) = target_value

\* oracle(input_bits) of create_database_oracle(target_value).
database_oracle(target_value, input_bits) ==
    DatabaseValue(input_bits, 1, 0) = target_value

\* The inner loop of the SAT oracle over the literals of one clause, from
\* position pos on: TRUE at the first literal that holds.
RECURSIVE ClauseSatisfied(_, _, _, _)
ClauseSatisfied(clause, pos, num_variables, input_bits) ==
    IF pos > Len(clause) THEN FALSE
    ELSE LET literal == clause[pos]
             var == Abs(literal) - 1
         IN  IF var >= num_variables
             THEN ClauseSatisfied(clause, pos + 1, num_variables, input_bits)
             ELSE LET var_value == IF var < Len(input_bits)
                                   THEN Truthy(input_bits[var + 1]) ELSE FALSE
                      literal_value == IF literal > 0 THEN var_value ELSE ~var_value
                  IN  literal_value
                      \/ ClauseSatisfied(clause, pos + 1, num_variables, input_bits)

\* The outer loop over the clauses: FALSE at the first unsatisfied clause.
RECURSIVE AllClauses(_, _, _, _)
AllClauses(clauses, pos, num_variables, input_bits) ==
    IF pos > Len(clauses) THEN TRUE
    ELSE IF ~ClauseSatisfied(clauses[pos], 1, num_variables, input_bits) THEN FALSE
    ELSE AllClauses(clauses, pos + 1, num_variables, input_bits)

\* An oracle that returns after looking at the first clause.
sat_oracle_first_clause(clauses, num_variables, input_bits) ==
    AllClauses(SubSeq(clauses, 1, MinOf({1, Len(clauses)})), 1, num_variables, input_bits)

\* oracle(input_bits) of create_sat_oracle(clauses, num_variables).
sat_oracle(clauses, num_variables, input_bits) ==
    AllClauses(clauses, 1, num_variables, input_bits)

\* for c in range(num_colors): the colour found in the block at idx, -1
\* when no bit of it is set; a later set bit replaces an earlier one.
RECURSIVE AssignedColor(_, _, _, _, _)
AssignedColor(idx, c, num_colors, input_bits, color) ==
    IF c >= num_colors THEN color
    ELSE AssignedColor(idx, c + 1, num_colors, input_bits,
                       IF idx + c < Len(input_bits) /\ Truthy(input_bits[idx + c + 1])
                       THEN c ELSE color)

\* The loop over the edges, from position pos on.
RECURSIVE AllEdges(_, _, _, _, _)
AllEdges(edges, pos, num_vertices, num_colors, input_bits) ==
    IF pos > Len(edges) THEN TRUE
    ELSE LET v1 == edges[pos][1]
             v2 == edges[pos][2]
             color1 == AssignedColor(v1 * num_colors, 0, num_colors, input_bits, -1)
             color2 == AssignedColor(v2 * num_colors, 0, num_colors, input_bits, -1)
         IN  IF v1 >= num_vertices \/ v2 >= num_vertices
             THEN AllEdges(edges, pos + 1, num_vertices, num_colors, input_bits)
             ELSE IF color1 = color2 /\ color1 # -1 THEN FALSE
             ELSE AllEdges(edges, pos + 1, num_vertices, num_colors, input_bits)

\* An oracle that returns after looking at the first edge.
graph_coloring_oracle_first_edge(edges, num_vertices, num_colors, input_bits) ==
    AllEdges(SubSeq(edges, 1, MinOf({1, Len(edges)})), 1,
             num_vertices, num_colors, input_bits)

\* oracle(input_bits) of create_graph_coloring_oracle(edges, num_vertices,
\* num_colors).
graph_coloring_oracle(edges, num_vertices, num_colors, input_bits) ==
    AllEdges(edges, 1, num_vertices, num_colors, input_bits)

\* The closures the three factories return: the arguments they captured.
NoOracle ==
    [kind |-> "none", target_value |-> 0, clauses |-> <<>>, num_variables |-> 0,
     edges |-> <<>>, num_vertices |-> 0, num_colors |-> 0]
create_database_oracle(target_value) ==
    [NoOracle EXCEPT !.kind = "database", !.target_value = target_value]
create_sat_oracle(clauses, num_variables) ==
    [NoOracle EXCEPT !.kind = "sat", !.clauses = clauses,
                     !.num_variables = num_variables]
create_graph_coloring_oracle(edges, num_vertices, num_colors) ==
    [NoOracle EXCEPT !.kind = "coloring", !.edges = edges,
                     !.num_vertices = num_vertices, !.num_colors = num_colors]

\* oracle(input_bits) for a closure.
CallOracle(o, input_bits) ==
    IF o.kind = "database" THEN database_oracle(o.target_value, input_bits)
    ELSE IF o.kind = "sat" THEN sat_oracle(o.clauses, o.num_variables, input_bits)
    ELSE graph_coloring_oracle(o.edges, o.num_vertices, o.num_colors, input_bits)

\* ---------------------------------------------------- pseudo-random sources
\* The generator of module `random` and the global generator of numpy.random
\* are deterministic machines: a state, a seeding function and one transition
\* per draw.  Each process has one of each, seeded from operating-system
\* entropy when the module is imported.
GenStates == 0..3

\* random.seed(s), np.random.seed(s): the state the seed s puts the generator in.
random_seed(s) == s % 4

\* The generator after one draw.
Advance(g) == (g + 1) % 4

\* One draw of an integer in range(n): the value and the generator after it.
Draw(g, n) == [val |-> (Advance(g) * n) \div 4, gen |-> Advance(g)]

\* random.choice(seq), np.random.choice(seq).
random_choice(g, seq) ==
    LET d == Draw(g, Len(seq)) IN [val |-> seq[d.val + 1], gen |-> d.gen]

\* -------------------------------------- _internals: class _GroversAlgorithm
\* _GroversAlgorithm.__init__(num_qubits, oracle, num_solutions).
_GroversAlgorithm_init(num_qubits, num_solutions) ==
    [num_qubits |-> num_qubits, num_solutions |-> num_solutions]

\* execute_with_measurements(num_shots):
\* [random.randint(0, (1 << num_qubits) - 1) for _ in range(num_shots)],
\* drawn from the generator g of module `random`.
RECURSIVE _GroversAlgorithm_execute_with_measurements(_, _, _)
_GroversAlgorithm_execute_with_measurements(self, num_shots, g) ==
    IF num_shots <= 0 THEN [ret |-> <<>>, gen |-> g]
    ELSE LET d == Draw(g, Shl1(self.num_qubits))
             rest == _GroversAlgorithm_execute_with_measurements(
                         self, num_shots - 1, d.gen)
         IN  [ret |-> <<d.val>> \o rest.ret, gen |-> rest.gen]

\* ------------------------------------------- algorithms.py: GroversAlgorithm
GroversAlgorithm_init(num_qubits, num_solutions) ==
    [_grover |-> _GroversAlgorithm_init(num_qubits, num_solutions),
     num_qubits |-> num_qubits,
     num_solutions |-> num_solutions]

\* GroversAlgorithm.execute(num_shots=1000).
GroversAlgorithm_execute(self, num_shots, g) ==
    _GroversAlgorithm_execute_with_measurements(self._grover, num_shots, g)

\* ------------------------------------------------- utils.py: random_circuit
\* gates = ['H', 'X', 'Y', 'Z', 'RX', 'RY', 'RZ'].
RandomGates ==
    << <<"H">>, <<"X">>, <<"Y">>, <<"Z">>, <<"R","X">>, <<"R","Y">>, <<"R","Z">> >>
RotationGates == {<<"R","X">>, <<"R","Y">>, <<"R","Z">>}

\* for qubit in range(num_qubits): one np.random.choice(gates), for a
\* rotation one np.random.uniform, then add_gate.  st is the circuit built
\* so far, the generator of numpy.random and the exception raised, if any.
RECURSIVE RcSingles(_, _, _)
RcSingles(st, qubit, num_qubits) ==
    IF st.exc # "none" \/ qubit >= num_qubits THEN st
    ELSE LET d == random_choice(st.gen, RandomGates)
             a == Draw(d.gen, 2)
             rot == d.val \in RotationGates
             o == Circuit_add_gate(st.c, d.val, <<qubit>>, IF rot THEN 1 ELSE 0)
         IN  RcSingles([c |-> o.self,
                        gen |-> IF rot THEN a.gen ELSE d.gen,
                        exc |-> o.exc],
                       qubit + 1, num_qubits)

\* for _ in range(num_qubits // 2): two np.random.randint(0, num_qubits) and
\* add_gate('CNOT', ...) when the two differ.
RECURSIVE RcPairs(_, _, _)
RcPairs(st, k, num_qubits) ==
    IF st.exc # "none" \/ k >= num_qubits \div 2 THEN st
    ELSE LET q1 == Draw(st.gen, num_qubits)
             q2 == Draw(q1.gen, num_qubits)
             o == IF q1.val # q2.val
                  THEN Circuit_add_gate(st.c, <<"C","N","O","T">>,
                                        <<q1.val, q2.val>>, 0)
                  ELSE Out(st.c, Ret(SelfV))
         IN  RcPairs([c |-> o.self, gen |-> q2.gen, exc |-> o.exc],
                     k + 1, num_qubits)

\* for layer in range(depth).
RECURSIVE RcLayers(_, _, _, _)
RcLayers(st, layer, depth, num_qubits) ==
    IF st.exc # "none" \/ layer >= depth THEN st
    ELSE LET s1 == RcSingles(st, 0, num_qubits)
             s2 == IF num_qubits > 1 THEN RcPairs(s1, 0, num_qubits) ELSE s1
         IN  RcLayers(s2, layer + 1, depth, num_qubits)

\* random_circuit(num_qubits, depth, seed=None), called when the global
\* generator of numpy.random is g: the outcome and the generator it leaves.
random_circuit(num_qubits, depth, seed, g) ==
    LET g0 == IF seed.t # "None" THEN random_seed(seed.v) ELSE g
        st == RcLayers([c |-> Circuit_init(num_qubits, 0), gen |-> g0,
                        exc |-> "none"],
                       0, depth, num_qubits)
    IN  [exc |-> st.exc,
         ret |-> IF st.exc = "none" THEN ObjV(st.c) ELSE None,
         gen |-> st.gen]

\* ------------------------------------------------------------------ state
VARIABLES
    circuit,    \* the Circuit object the calls below are made on
    nAdded,     \* how many add_gate/add_measurement calls on it returned
    badAdded,   \* whether one of them named an out-of-range or repeated qubit
    last,       \* the last completed call: operation, arguments, outcome
    optRuns,    \* how many optimize() calls in a row just ran (2: two or more)
    sv,         \* the Statevector object apply_gate and measure are called on
    dm,         \* the DensityMatrix object apply_gate is called on
    th,         \* per thread: the execution it runs on `circuit` and its position
    heap        \* the objects the running executions have created, by identity

circuitVars == <<circuit, nAdded, badAdded, optRuns>>
stateVars == <<sv, dm>>
concVars == <<th, heap>>

VARIABLES
    pyrandom,   \* per run: the state of the generator of module `random`
    nprandom,   \* per run: the state of the global generator of numpy.random
    injected,   \* the seed the runs injected, None before
    outcomes    \* per run: what its Statevector.measure calls returned, in order

randVars == <<pyrandom, nprandom, injected, outcomes>>

VARIABLES
    models,     \* the NoiseModel objects created so far, by identity
    typical,    \* which of them createTypicalModel() returned
    nNoise,     \* how many add_*_noise calls returned
    dicts       \* the dictionaries to_dict() returned, in order

noiseVars == <<models, typical, nNoise, dicts>>

VARIABLES
    dist,       \* the distance d of the SurfaceCode built
    xerr,       \* the data qubits carrying an X error
    zerr,       \* the data qubits carrying a Z error
    nErr,       \* how many Pauli errors were injected
    previous,   \* the ancillas that read 1 in the previous extraction round
    syndrome,   \* the Syndrome of the latest round: the ancillas that flipped
    nRounds,    \* how many extraction rounds ran
    mwpm,       \* MWPMDecoder: whether decode returned, and its result
    uf          \* UnionFindDecoder: its position, clusters, rounds and result

qecVars == <<dist, xerr, zerr, nErr, previous, syndrome, nRounds, mwpm, uf>>

VARIABLES
    fs,         \* the candidate locations that exist and are executable
    dbg,        \* per run: the QuantumDebugger object the script holds, or None
    launched,   \* per run: the argument lists of the processes started
    dcall       \* the last debugger call: its arguments and outcome per run

dbgVars == <<fs, dbg, launched, dcall>>

VARIABLES
    oracle,     \* the closure a create_*_oracle call returned
    ocall       \* the last call of the oracle: its input and return value

orcVars == <<oracle, ocall>>

\* The variables of the other parts of the package, which the operations on
\* Circuit, Statevector and DensityMatrix leave alone.
extVars == <<randVars, noiseVars, qecVars, dbgVars, orcVars>>

\* The runs (processes) compared: each has its own generators.
Runs == {1, 2}

\* The state of the other parts while only Circuit, Statevector and
\* DensityMatrix objects are used.
RandAtRest ==
    /\ pyrandom = [r \in Runs |-> 0]
    /\ nprandom = [r \in Runs |-> 0]
    /\ injected = None
    /\ outcomes = [r \in Runs |-> <<>>]

NoiseAtRest ==
    /\ models = <<>>
    /\ typical = {}
    /\ nNoise = 0
    /\ dicts = <<>>

\* A decoder that has not been called.
MwpmIdle == [pc |-> "idle", result |-> Decoded({})]
UfIdle == [pc |-> "idle", clusters |-> {}, rounds |-> 0, result |-> Decoded({})]

\* A SurfaceCode(d) after prepareLogicalZero(), nothing injected or measured.
QecFresh(d) ==
    /\ dist = d
    /\ xerr = {}
    /\ zerr = {}
    /\ nErr = 0
    /\ previous = {}
    /\ syndrome = {}
    /\ nRounds = 0
    /\ mwpm = MwpmIdle
    /\ uf = UfIdle

QecAtRest == QecFresh(3)

\* No debugger call made yet.
NoDebuggerCall ==
    [op |-> "none", arg |-> [r \in Runs |-> None], ok |-> FALSE,
     exc |-> [r \in Runs |-> "none"]]

DbgFresh ==
    /\ dbg = [r \in Runs |-> None]
    /\ launched = [r \in Runs |-> <<>>]
    /\ dcall = NoDebuggerCall

\* No oracle called yet.
NoOracleCall == [called |-> FALSE, input_bits |-> <<>>, ret |-> FALSE]

ToolsAtRest ==
    /\ fs = {}
    /\ DbgFresh
    /\ oracle = NoOracle
    /\ ocall = NoOracleCall

ExtAtRest == RandAtRest /\ NoiseAtRest /\ QecAtRest /\ ToolsAtRest

vars == <<circuit, nAdded, badAdded, last, optRuns, sv, dm, th, heap,
          pyrandom, nprandom, injected, outcomes, models, typical, nNoise, dicts,
          dist, xerr, zerr, nErr, previous, syndrome, nRounds, mwpm, uf,
          fs, dbg, launched, dcall, oracle, ocall>>

\* The threads that execute the same circuit.
Threads == {1, 2}

Idle == [pc |-> "idle", op |-> "none", arg |-> None, c0 |-> None,
         expect |-> Raise("none"), tmp |-> 0, res |-> [exc |-> "none", ref |-> 0]]

\* ----------------------------------------------------------------- inputs
GateNameInputs ==
    {<<"H">>, <<"X">>, <<"Y">>, <<"Z">>, <<"C","N","O","T">>,
     <<"S","W","A","P">>, <<"R","X">>, <<"R","Y">>, <<"R","Z">>, <<"P">>,
     <<"h">>, <<"c","n","o","t">>, <<"T">>}

\* The upper-case names add_gate has a branch for.
SupportedGates ==
    {<<"H">>, <<"X">>, <<"Y">>, <<"Z">>, <<"C","N","O","T">>,
     <<"S","W","A","P">>, <<"R","X">>, <<"R","Y">>, <<"R","Z">>, <<"P">>}

TwoQubitGates == {<<"C","N","O","T">>, <<"S","W","A","P">>}

QubitLists == UNION {[1..k -> 0..MaxQubits] : k \in 0..2}

\* The `angle` keyword: absent (the default 0.0) or given.  Only the RX, RY,
\* RZ and P branches read it.
AngleInputs == {0, 1}
AngleGates == {<<"R","X">>, <<"R","Y">>, <<"R","Z">>, <<"P">>}
KwargAngles(gate_name) ==
    IF Upper(gate_name) \in AngleGates THEN AngleInputs ELSE {0}

BasisInputs == {"computational", "x"}

ClassicalBitInputs == {0, 1}

\* A list of 2^n amplitudes, as a caller passes it to Statevector(amplitudes=).
BasisAmplitudes(n) ==
    NdArray([i \in 1..Shl1(n) |-> IF i = 1 THEN Complex(1, 0) ELSE Complex(0, 0)])

\* An identity matrix of 2^n rows, as passed to DensityMatrix(matrix=).
IdentityMatrix(n) ==
    NdArray([i \in 1..Shl1(n) |->
                [j \in 1..Shl1(n) |-> IF i = j THEN Complex(1, 0) ELSE Complex(0, 0)]])

\* The qubit indices a gate of this name refers to, and whether they break
\* the rule "distinct and within [0, num_qubits)".
Referenced(gate_name, qubits) ==
    SubSeq(qubits, 1, IF Upper(gate_name) \in TwoQubitGates THEN 2 ELSE 1)

InvalidRefs(refs, num_qubits) ==
    \/ \E i \in 1..Len(refs) : refs[i] \notin 0..(num_qubits - 1)
    \/ \E i, j \in 1..Len(refs) : i < j /\ refs[i] = refs[j]

Call(op, name, qubits, arg, o) ==
    [op |-> op, name |-> name, qubits |-> qubits, arg |-> arg,
     exc |-> o.exc, ret |-> o.ret]

NoCall == [op |-> "init", name |-> <<>>, qubits |-> <<>>, arg |-> None,
           exc |-> "none", ret |-> None]

\* ------------------------------------------------------- circuit operations
Init ==
    /\ \E n \in 0..MaxQubits, m \in ClassicalBitInputs : circuit = Circuit_init(n, m)
    /\ nAdded = 0
    /\ badAdded = FALSE
    /\ last = NoCall
    /\ optRuns = 0
    /\ sv = Statevector_init(IntV(1), None)
    /\ dm = DensityMatrix_init(IntV(1), None)
    /\ th = [t \in Threads |-> Idle]
    /\ heap = <<>>
    /\ ExtAtRest

AddGate ==
    /\ nAdded < MaxGates
    /\ \E name \in GateNameInputs, qubits \in QubitLists :
       \E angle \in KwargAngles(name) :
         LET o == Circuit_add_gate(circuit, name, qubits, angle) IN
         /\ circuit' = o.self
         /\ last' = Call("add_gate", name, qubits, None, o)
         /\ nAdded' = IF o.exc = "none" THEN nAdded + 1 ELSE nAdded
         /\ badAdded' = (badAdded \/ (o.exc = "none" /\
                            InvalidRefs(Referenced(name, qubits), circuit.num_qubits)))
    /\ optRuns' = 0
    /\ UNCHANGED stateVars
    /\ UNCHANGED concVars
    /\ UNCHANGED extVars

AddMeasurement ==
    /\ nAdded < MaxGates
    /\ \E qubit \in 0..MaxQubits, basis \in BasisInputs :
         LET o == Circuit_add_measurement(circuit, qubit, basis) IN
         /\ circuit' = o.self
         /\ last' = Call("add_measurement", <<"M">>, <<qubit>>, None, o)
         /\ nAdded' = IF o.exc = "none" THEN nAdded + 1 ELSE nAdded
         /\ badAdded' = (badAdded \/ (o.exc = "none" /\
                            InvalidRefs(<<qubit>>, circuit.num_qubits)))
    /\ optRuns' = 0
    /\ UNCHANGED stateVars
    /\ UNCHANGED concVars
    /\ UNCHANGED extVars

ExecuteWith(initial_state) ==
    LET o == Circuit_execute(circuit, initial_state) IN
    /\ circuit' = o.self
    /\ last' = Call("execute", <<>>, <<>>, initial_state, o)
    /\ optRuns' = 0
    /\ UNCHANGED stateVars
    /\ UNCHANGED concVars
    /\ UNCHANGED <<nAdded, badAdded>>
    /\ UNCHANGED extVars

Execute ==
    \/ ExecuteWith(None)
    \/ \E k \in 0..MaxQubits : ExecuteWith(ObjV(Statevector_init(IntV(k), None)))
    \/ \E k \in 0..MaxQubits :
         ExecuteWith(ObjV(Statevector_init(IntV(0), BasisAmplitudes(k))))

ExecuteDensityMatrixWith(initial_state) ==
    LET o == Circuit_execute_density_matrix(circuit, initial_state) IN
    /\ circuit' = o.self
    /\ last' = Call("execute_density_matrix", <<>>, <<>>, initial_state, o)
    /\ optRuns' = 0
    /\ UNCHANGED stateVars
    /\ UNCHANGED concVars
    /\ UNCHANGED <<nAdded, badAdded>>
    /\ UNCHANGED extVars

ExecuteDensityMatrix ==
    \/ ExecuteDensityMatrixWith(None)
    \/ \E k \in 0..MaxQubits :
         ExecuteDensityMatrixWith(ObjV(DensityMatrix_init(IntV(k), None)))
    \/ \E k \in 0..MaxQubits :
         ExecuteDensityMatrixWith(ObjV(DensityMatrix_init(IntV(0), IdentityMatrix(k))))

Optimize ==
    LET o == Circuit_optimize(circuit) IN
    /\ circuit' = o.self
    /\ last' = Call("optimize", <<>>, <<>>, None, o)
    /\ optRuns' = IF optRuns < 2 THEN optRuns + 1 ELSE optRuns
    /\ UNCHANGED stateVars
    /\ UNCHANGED concVars
    /\ UNCHANGED <<nAdded, badAdded>>
    /\ UNCHANGED extVars

CreateBellState ==
    /\ last' = Call("create_bell_state", <<>>, <<>>, None, create_bell_state)
    /\ optRuns' = 0
    /\ UNCHANGED <<circuit, nAdded, badAdded>>
    /\ UNCHANGED stateVars
    /\ UNCHANGED concVars
    /\ UNCHANGED extVars

\* test_basic_circuit, for every size: build the GHZ state, then
\* result.measure(k) for every qubit k.  The call that raises ends the run.
GhzRun ==
    /\ \E n \in 2..(MaxQubits + 1) :
         LET o == create_ghz_state(n)
             results == IF o.exc # "none" THEN {<<>>}
                        ELSE {m \in [1..n -> {0, 1}] :
                                \A k \in 1..n : m[k] \in Statevector_measure(o.ret.v, k - 1)}
         IN  \E m \in results :
               last' = Call("ghz_run", <<>>, <<n>>, None,
                            IF o.exc # "none" THEN Raise(o.exc) ELSE Ret(ListV(m)))
    /\ optRuns' = 0
    /\ UNCHANGED <<circuit, nAdded, badAdded>>
    /\ UNCHANGED stateVars
    /\ UNCHANGED concVars
    /\ UNCHANGED extVars

\* circuit.h(q), circuit.cx(c, t).
Shorthand ==
    /\ nAdded < MaxGates
    /\ \E name \in {"h", "cx"}, qubits \in QubitLists :
         /\ Len(qubits) = (IF name = "h" THEN 1 ELSE 2)
         /\ LET o == Circuit_shorthand(circuit, name, qubits) IN
            /\ circuit' = o.self
            /\ last' = Call(name, <<>>, qubits, None, o)
            /\ nAdded' = IF o.exc = "none" THEN nAdded + 1 ELSE nAdded
            /\ badAdded' = (badAdded \/ (o.exc = "none" /\
                               InvalidRefs(qubits, circuit.num_qubits)))
    /\ optRuns' = 0
    /\ UNCHANGED stateVars
    /\ UNCHANGED concVars
    /\ UNCHANGED extVars

Next ==
    \/ AddGate
    \/ AddMeasurement
    \/ Execute
    \/ ExecuteDensityMatrix
    \/ Optimize
    \/ CreateBellState
    \/ GhzRun
    \/ Shorthand

Spec == Init /\ [][Next]_vars

\* ------------------------------------------- state-object operations
\* The objects a caller can build: Statevector(k), Statevector(amplitudes=a)
\* with 2^k amplitudes, and the same two ways for DensityMatrix.
InitState ==
    /\ circuit = Circuit_init(1, 0)
    /\ nAdded = 0
    /\ badAdded = FALSE
    /\ last = NoCall
    /\ optRuns = 0
    /\ \E k \in 0..MaxQubits :
         \/ sv = Statevector_init(IntV(k), None)
         \/ sv = Statevector_init(IntV(0), BasisAmplitudes(k))
    /\ \E k \in 0..MaxQubits :
         \/ dm = DensityMatrix_init(IntV(k), None)
         \/ dm = DensityMatrix_init(IntV(0), IdentityMatrix(k))
    /\ th = [t \in Threads |-> Idle]
    /\ heap = <<>>
    /\ ExtAtRest

SvApplyGate ==
    /\ \E name \in GateNameInputs, qubit \in 0..MaxQubits :
       \E angle \in KwargAngles(name) :
         LET o == Statevector_apply_gate(sv, name, qubit, angle) IN
         /\ sv' = o.self
         /\ last' = Call("sv_apply_gate", name, <<qubit>>, None, o)
    /\ UNCHANGED dm
    /\ UNCHANGED circuitVars
    /\ UNCHANGED concVars
    /\ UNCHANGED extVars

SvMeasure ==
    /\ \E qubit \in 0..MaxQubits :
       \E r \in Statevector_measure(sv, qubit) :
         last' = Call("measure", <<>>, <<qubit>>, None, Ret(IntV(r)))
    /\ UNCHANGED stateVars
    /\ UNCHANGED concVars
    /\ UNCHANGED circuitVars
    /\ UNCHANGED concVars
    /\ UNCHANGED extVars

SvGetAmplitudes ==
    /\ last' = Call("get_amplitudes", <<>>, <<>>, None, Statevector_get_amplitudes(sv))
    /\ UNCHANGED stateVars
    /\ UNCHANGED concVars
    /\ UNCHANGED circuitVars
    /\ UNCHANGED concVars
    /\ UNCHANGED extVars

DmApplyGate ==
    /\ \E name \in GateNameInputs, qubit \in 0..MaxQubits :
         LET o == DensityMatrix_apply_gate(dm, name, qubit) IN
         /\ dm' = o.self
         /\ last' = Call("dm_apply_gate", name, <<qubit>>, None, o)
    /\ UNCHANGED sv
    /\ UNCHANGED circuitVars
    /\ UNCHANGED concVars
    /\ UNCHANGED extVars

\* sv = create_quantum_state_from_amplitudes(a) for an array a of 2^n
\* amplitudes.
CreateFromAmplitudes ==
    /\ \E n \in 0..MaxQubits :
         /\ sv' = create_quantum_state_from_amplitudes(BasisAmplitudes(n))
         /\ last' = Call("from_amplitudes", <<>>, <<n>>, None, Ret(None))
    /\ UNCHANGED dm
    /\ UNCHANGED circuitVars
    /\ UNCHANGED concVars
    /\ UNCHANGED extVars

\* dm = create_mixed_state_from_matrix(m) for a matrix m of 2^n rows.
CreateFromMatrix ==
    /\ \E n \in 0..MaxQubits :
         /\ dm' = create_mixed_state_from_matrix(IdentityMatrix(n))
         /\ last' = Call("from_matrix", <<>>, <<n>>, None, Ret(None))
    /\ UNCHANGED sv
    /\ UNCHANGED circuitVars
    /\ UNCHANGED concVars
    /\ UNCHANGED extVars

NextState ==
    \/ SvApplyGate
    \/ SvMeasure
    \/ SvGetAmplitudes
    \/ DmApplyGate
    \/ CreateFromAmplitudes
    \/ CreateFromMatrix

StateSpec == InitState /\ [][NextState]_vars

\* --------------------------------------------- gate dispatch of the classes
\* One circuit, one state vector and one density matrix, and the three
\* operations that dispatch on a gate name.
InitGate ==
    /\ circuit = Circuit_init(MaxQubits, 0)
    /\ nAdded = 0
    /\ badAdded = FALSE
    /\ last = NoCall
    /\ optRuns = 0
    /\ sv = Statevector_init(IntV(MaxQubits), None)
    /\ dm = DensityMatrix_init(IntV(MaxQubits), None)
    /\ th = [t \in Threads |-> Idle]
    /\ heap = <<>>
    /\ ExtAtRest

NextGate ==
    \/ AddGate
    \/ SvApplyGate
    \/ DmApplyGate

GateSpec == InitGate /\ [][NextGate]_vars

\* ---------------------------------------------- interleaved executions
\* Two threads call execute / execute_density_matrix on the same Circuit.
\* A step is one access to the shared circuit or one object creation.
\* What the call returns when nothing else runs: the whole method at once.
Alone(op, c, arg) ==
    LET o == IF op = "execute" THEN Circuit_execute(c, arg)
             ELSE Circuit_execute_density_matrix(c, arg)
    IN  [exc |-> o.exc, ret |-> o.ret]

BeginWith(t, op, arg) ==
    /\ th[t].pc = "idle"
    /\ th' = [th EXCEPT ![t] = [Idle EXCEPT !.pc = "called", !.op = op, !.arg = arg,
                                            !.c0 = circuit,
                                            !.expect = Alone(op, circuit, arg)]]
    /\ UNCHANGED <<heap, last>>
    /\ UNCHANGED circuitVars
    /\ UNCHANGED stateVars
    /\ UNCHANGED extVars

Begin(t) ==
    \/ BeginWith(t, "execute", None)
    \/ \E k \in 0..MaxQubits :
         BeginWith(t, "execute", ObjV(Statevector_init(IntV(k), None)))
    \/ BeginWith(t, "execute_density_matrix", None)
    \/ \E k \in 0..MaxQubits :
         BeginWith(t, "execute_density_matrix", ObjV(DensityMatrix_init(IntV(k), None)))

\* Circuit.execute: line 96 ends the call; a returned state would be a new
\* object.
ExecuteStep(t) ==
    /\ th[t].pc = "called"
    /\ th[t].op = "execute"
    /\ LET o == Circuit_execute(circuit, th[t].arg) IN
       /\ circuit' = o.self
       /\ heap' = IF o.exc = "none" THEN Append(heap, o.ret.v) ELSE heap
       /\ th' = [th EXCEPT ![t].pc = "done",
                           ![t].res = [exc |-> o.exc,
                                       ref |-> IF o.exc = "none" THEN Len(heap) + 1 ELSE 0]]
    /\ UNCHANGED <<nAdded, badAdded, optRuns, last>>
    /\ UNCHANGED stateVars
    /\ UNCHANGED extVars

\* Circuit.execute_density_matrix, first half: the call of
\* self._circuit.execute_density_matrix reads the circuit and creates the
\* _DensityMatrix object.
EngineStep(t) ==
    /\ th[t].pc = "called"
    /\ th[t].op = "execute_density_matrix"
    /\ LET arg == th[t].arg
           r == _Circuit_execute_density_matrix(
                    circuit._circuit,
                    IF arg.t = "None" THEN None ELSE ObjV(arg.v._density_matrix))
       IN  /\ circuit' = [circuit EXCEPT !._circuit = r.self]
           /\ heap' = Append(heap, r.ret.v)
           /\ th' = [th EXCEPT ![t].pc = "wrap", ![t].tmp = Len(heap) + 1]
    /\ UNCHANGED <<nAdded, badAdded, optRuns, last>>
    /\ UNCHANGED stateVars
    /\ UNCHANGED extVars

\* Second half: DensityMatrix(<that object>) creates the wrapper returned.
WrapStep(t) ==
    /\ th[t].pc = "wrap"
    /\ heap' = Append(heap, DensityMatrix_init(ObjV(heap[th[t].tmp]), None))
    /\ th' = [th EXCEPT ![t].pc = "done",
                        ![t].res = [exc |-> "none", ref |-> Len(heap) + 1]]
    /\ UNCHANGED <<last>>
    /\ UNCHANGED circuitVars
    /\ UNCHANGED stateVars
    /\ UNCHANGED extVars

\* Gates are added before the executions start.
AddBefore ==
    /\ \A t \in Threads : th[t].pc = "idle"
    /\ AddMeasurement

NextConc ==
    \/ AddBefore
    \/ \E t \in Threads : Begin(t)
    \/ \E t \in Threads : ExecuteStep(t)
    \/ \E t \in Threads : EngineStep(t)
    \/ \E t \in Threads : WrapStep(t)

ConcSpec == Init /\ [][NextConc]_vars

\* ------------------------------------------------- runs and random sources
\* Two runs of a seeded script, each in its own process: both inject the
\* same seed the same way and make the same executions and
\* Statevector.measure calls; run 1 makes further calls in between.
SeedInputs == 0..MaxSeed

\* The generators hold what the operating system's entropy seeded them with.
InitRand ==
    /\ circuit = Circuit_init(1, 0)
    /\ nAdded = 0
    /\ badAdded = FALSE
    /\ last = NoCall
    /\ optRuns = 0
    /\ sv = Statevector_init(IntV(1), None)
    /\ dm = DensityMatrix_init(IntV(1), None)
    /\ th = [t \in Threads |-> Idle]
    /\ heap = <<>>
    /\ pyrandom \in [Runs -> GenStates]
    /\ nprandom \in [Runs -> GenStates]
    /\ injected = None
    /\ outcomes = [r \in Runs |-> <<>>]
    /\ NoiseAtRest
    /\ QecAtRest
    /\ ToolsAtRest

RandCall(op, arg, exc) ==
    [op |-> op, name |-> <<>>, qubits |-> <<>>, arg |-> arg,
     exc |-> exc, ret |-> None]

\* Each run starts with random.seed(s).
RandomSeed ==
    /\ injected.t = "None"
    /\ \E s \in SeedInputs :
         /\ pyrandom' = [r \in Runs |-> random_seed(s)]
         /\ injected' = IntV(s)
         /\ last' = RandCall("random.seed", IntV(s), "none")
    /\ UNCHANGED <<nprandom, outcomes>>
    /\ UNCHANGED <<circuitVars, stateVars, concVars, noiseVars, qecVars, dbgVars, orcVars>>

\* Each run starts with random_circuit(num_qubits, depth, seed=s): the one
\* seed parameter of the package.
SeededRandomCircuit ==
    /\ injected.t = "None"
    /\ \E s \in SeedInputs, num_qubits \in 1..MaxQubits :
         LET o == [r \in Runs |-> random_circuit(num_qubits, 1, IntV(s), nprandom[r])]
         IN  /\ nprandom' = [r \in Runs |-> o[r].gen]
             /\ injected' = IntV(s)
             /\ last' = RandCall("seeded_random_circuit", IntV(s), o[1].exc)
    /\ UNCHANGED <<pyrandom, outcomes>>
    /\ UNCHANGED <<circuitVars, stateVars, concVars, noiseVars, qecVars, dbgVars, orcVars>>

\* Each run calls Statevector.measure(qubit) on its Statevector(1):
\* random.choice([0, 1]) on the run's generator.
MeasureBoth ==
    /\ injected.t # "None"
    /\ \A r \in Runs : Len(outcomes[r]) < MaxCalls
    /\ \E qubit \in 0..1 :
         LET d == [r \in Runs |-> random_choice(pyrandom[r], <<0, 1>>)] IN
         /\ \A r \in Runs : d[r].val \in Statevector_measure(sv, qubit)
         /\ pyrandom' = [r \in Runs |-> d[r].gen]
         /\ outcomes' = [r \in Runs |-> Append(outcomes[r], d[r].val)]
         /\ last' = RandCall("measure", IntV(qubit), "none")
    /\ UNCHANGED <<nprandom, injected>>
    /\ UNCHANGED <<circuitVars, stateVars, concVars, noiseVars, qecVars, dbgVars, orcVars>>

\* Each run calls circuit.execute().
ExecuteBoth ==
    /\ injected.t # "None"
    /\ last' = RandCall("execute", None, Circuit_execute(circuit, None).exc)
    /\ UNCHANGED randVars
    /\ UNCHANGED <<circuitVars, stateVars, concVars, noiseVars, qecVars, dbgVars, orcVars>>

\* Run 1 calls GroversAlgorithm(1, oracle, 1).execute(num_shots).
GroverExecute ==
    /\ \E num_shots \in 1..2 :
         LET o == GroversAlgorithm_execute(GroversAlgorithm_init(1, 1), num_shots,
                                           pyrandom[1]) IN
         /\ pyrandom' = [pyrandom EXCEPT ![1] = o.gen]
         /\ last' = RandCall("grover_execute", IntV(num_shots), "none")
    /\ UNCHANGED <<nprandom, injected, outcomes>>
    /\ UNCHANGED <<circuitVars, stateVars, concVars, noiseVars, qecVars, dbgVars, orcVars>>

\* Run 1 calls random_circuit(num_qubits, depth[, seed]).
RandomCircuitWith(num_qubits, depth, seed) ==
    LET o == random_circuit(num_qubits, depth, seed, nprandom[1]) IN
    /\ nprandom' = [nprandom EXCEPT ![1] = o.gen]
    /\ last' = RandCall("random_circuit", seed, o.exc)
    /\ UNCHANGED <<pyrandom, injected, outcomes>>
    /\ UNCHANGED <<circuitVars, stateVars, concVars, noiseVars, qecVars, dbgVars, orcVars>>

RandomCircuit ==
    \E num_qubits \in 0..MaxQubits, depth \in 0..1 :
       \/ RandomCircuitWith(num_qubits, depth, None)
       \/ injected.t # "None" /\ RandomCircuitWith(num_qubits, depth, injected)

NextRand ==
    \/ RandomSeed
    \/ SeededRandomCircuit
    \/ MeasureBoth
    \/ ExecuteBoth
    \/ GroverExecute
    \/ RandomCircuit

RandSpec == InitRand /\ [][NextRand]_vars

\* ------------------------------------------------------------ noise models
ProbabilityInputs == {Float(1, 2)}
RelaxationInputs == {<<Float(1, 1), Float(2, 1)>>}

InitNoise ==
    /\ circuit = Circuit_init(1, 0)
    /\ nAdded = 0
    /\ badAdded = FALSE
    /\ last = NoCall
    /\ optRuns = 0
    /\ sv = Statevector_init(IntV(1), None)
    /\ dm = DensityMatrix_init(IntV(1), None)
    /\ th = [t \in Threads |-> Idle]
    /\ heap = <<>>
    /\ RandAtRest
    /\ NoiseAtRest
    /\ QecAtRest
    /\ ToolsAtRest

NoiseCall(op, ref, n) ==
    [op |-> op, name |-> <<>>, qubits |-> <<n>>, arg |-> None,
     exc |-> "none", ret |-> IntV(ref)]

\* m = NoiseModel() or NoiseModel(name).
NewModel ==
    /\ Len(models) < MaxModels
    /\ \E name \in {"Custom Noise", "Typical Hardware Noise"} :
         models' = Append(models, NoiseModel_init(name))
    /\ last' = NoiseCall("NoiseModel", Len(models) + 1, nNoise)
    /\ UNCHANGED <<typical, nNoise, dicts>>
    /\ UNCHANGED <<circuitVars, stateVars, concVars, randVars, qecVars, dbgVars, orcVars>>

\* m = NoiseModel.createTypicalModel().
CreateTypicalModel ==
    /\ Len(models) < MaxModels
    /\ LET o == NoiseModel_createTypicalModel(models) IN
       /\ models' = o.objects
       /\ typical' = typical \cup {o.ref}
       /\ last' = NoiseCall("createTypicalModel", o.ref, nNoise)
    /\ UNCHANGED <<nNoise, dicts>>
    /\ UNCHANGED <<circuitVars, stateVars, concVars, randVars, qecVars, dbgVars, orcVars>>

\* models[i].add_depolarizing_noise(p).
AddDepolarizingNoise ==
    /\ nNoise < MaxNoiseCalls
    /\ \E i \in 1..Len(models), p \in ProbabilityInputs :
         /\ models' = [models EXCEPT ![i] = NoiseModel_add_depolarizing_noise(@, p)]
         /\ last' = NoiseCall("add_depolarizing_noise", i, nNoise + 1)
    /\ nNoise' = nNoise + 1
    /\ UNCHANGED <<typical, dicts>>
    /\ UNCHANGED <<circuitVars, stateVars, concVars, randVars, qecVars, dbgVars, orcVars>>

\* models[i].add_relaxation_noise(t1, t2).
AddRelaxationNoise ==
    /\ nNoise < MaxNoiseCalls
    /\ \E i \in 1..Len(models), t \in RelaxationInputs :
         /\ models' = [models EXCEPT ![i] = NoiseModel_add_relaxation_noise(@, t[1], t[2])]
         /\ last' = NoiseCall("add_relaxation_noise", i, nNoise + 1)
    /\ nNoise' = nNoise + 1
    /\ UNCHANGED <<typical, dicts>>
    /\ UNCHANGED <<circuitVars, stateVars, concVars, randVars, qecVars, dbgVars, orcVars>>

\* d = models[i].to_dict().
ToDict ==
    /\ Len(dicts) < MaxDicts
    /\ \E i \in 1..Len(models) :
         /\ dicts' = Append(dicts, NoiseModel_to_dict(models[i], i))
         /\ last' = NoiseCall("to_dict", i, nNoise)
    /\ UNCHANGED <<models, typical, nNoise>>
    /\ UNCHANGED <<circuitVars, stateVars, concVars, randVars, qecVars, dbgVars, orcVars>>

\* dicts[k]["channels"].append(channel): the holder of a returned dictionary
\* changes its channel list.
ChangeDict ==
    /\ nNoise < MaxNoiseCalls
    /\ \E k \in 1..Len(dicts), p \in ProbabilityInputs :
         /\ models' = DictAppend(dicts[k], Depolarizing(p), models)
         /\ last' = NoiseCall("dict_append", k, nNoise + 1)
    /\ nNoise' = nNoise + 1
    /\ UNCHANGED <<typical, dicts>>
    /\ UNCHANGED <<circuitVars, stateVars, concVars, randVars, qecVars, dbgVars, orcVars>>

NextNoise ==
    \/ NewModel
    \/ CreateTypicalModel
    \/ AddDepolarizingNoise
    \/ AddRelaxationNoise
    \/ ToDict
    \/ ChangeDict

NoiseSpec == InitNoise /\ [][NextNoise]_vars

\* ------------------------------------------------- quantum error correction
\* code = SurfaceCode(d); code.prepareLogicalZero(): the script of
\* demo_omniq.py, with Pauli errors injected before the first extraction.
InitQec ==
    /\ circuit = Circuit_init(1, 0)
    /\ nAdded = 0
    /\ badAdded = FALSE
    /\ last = NoCall
    /\ optRuns = 0
    /\ sv = Statevector_init(IntV(1), None)
    /\ dm = DensityMatrix_init(IntV(1), None)
    /\ th = [t \in Threads |-> Idle]
    /\ heap = <<>>
    /\ RandAtRest
    /\ NoiseAtRest
    /\ \E d \in Distances : QecFresh(d)
    /\ ToolsAtRest

restVars == <<circuitVars, last, stateVars, concVars, randVars, noiseVars, dbgVars, orcVars>>

\* A Pauli X or Z error on a data qubit (a Y error is both on one qubit);
\* a second error of the same type on the qubit undoes the first.
InjectError ==
    /\ nRounds = 0
    /\ nErr < MaxErrors
    /\ \E q \in DataQubits(dist), p \in {"X", "Z"} :
         /\ xerr' = IF p = "X" THEN SymDiff(xerr, {q}) ELSE xerr
         /\ zerr' = IF p = "Z" THEN SymDiff(zerr, {q}) ELSE zerr
    /\ nErr' = nErr + 1
    /\ UNCHANGED <<dist, previous, syndrome, nRounds, mwpm, uf>>
    /\ UNCHANGED restVars

\* One round of syndrome extraction, before the decoders are called.
ExtractSyndrome ==
    /\ nRounds < 2
    /\ mwpm.pc = "idle"
    /\ uf.pc = "idle"
    /\ LET o == ExtractRound(xerr, zerr, previous, dist) IN
       /\ syndrome' = o.syndrome
       /\ previous' = o.outcomes
    /\ nRounds' = nRounds + 1
    /\ UNCHANGED <<dist, xerr, zerr, nErr, mwpm, uf>>
    /\ UNCHANGED restVars

\* correction = MWPMDecoder().decode(syndrome, lattice).
DecodeMWPM ==
    /\ nRounds > 0
    /\ mwpm.pc = "idle"
    /\ mwpm' = [pc |-> "done", result |-> MWPMDecoder_decode(syndrome, dist)]
    /\ UNCHANGED <<dist, xerr, zerr, nErr, previous, syndrome, nRounds, uf>>
    /\ UNCHANGED restVars

\* UnionFindDecoder().decode(syndrome, lattice) starts: one cluster around
\* each triggered ancilla.
UnionFindStart ==
    /\ nRounds > 0
    /\ uf.pc = "idle"
    /\ uf' = [uf EXCEPT !.pc = "growing",
                        !.clusters = {Cluster({a}, FALSE) : a \in syndrome}]
    /\ UNCHANGED <<dist, xerr, zerr, nErr, previous, syndrome, nRounds, mwpm>>
    /\ UNCHANGED restVars

\* One growth round, while a cluster is active and the budget lasts.
UnionFindGrow ==
    /\ uf.pc = "growing"
    /\ \E cl \in uf.clusters : Active(cl, syndrome)
    /\ uf.rounds < RoundBudget(dist)
    /\ uf' = [uf EXCEPT !.clusters = GrowthRound(uf.clusters, syndrome, dist),
                        !.rounds = uf.rounds + 1]
    /\ UNCHANGED <<dist, xerr, zerr, nErr, previous, syndrome, nRounds, mwpm>>
    /\ UNCHANGED restVars

\* Growth has stopped: decode returns.
UnionFindFinish ==
    /\ uf.pc = "growing"
    /\ ~(/\ \E cl \in uf.clusters : Active(cl, syndrome)
         /\ uf.rounds < RoundBudget(dist))
    /\ uf' = [uf EXCEPT !.pc = "done",
                        !.result = UnionFindDecoder_finish(uf.clusters, syndrome, dist)]
    /\ UNCHANGED <<dist, xerr, zerr, nErr, previous, syndrome, nRounds, mwpm>>
    /\ UNCHANGED restVars

NextQec ==
    \/ InjectError
    \/ ExtractSyndrome
    \/ DecodeMWPM
    \/ UnionFindStart
    \/ UnionFindGrow
    \/ UnionFindFinish

QecSpec == InitQec /\ [][NextQec]_vars

\* ------------------------------------------------------------ the debugger
\* Two runs of one script on one machine, which differ only in the circuits
\* they pass: run r uses a circuit of r qubits, and each run passes its
\* circuit or none.  The locations do not change while the script runs, and
\* a launch succeeds or fails the same way in both runs.
CircuitOf(r) == Circuit_init(r, 0)
ArgChoices == [Runs -> BOOLEAN]
ArgOf(given, r) == IF given[r] THEN ObjV(CircuitOf(r)) ELSE None

InitDebug ==
    /\ circuit = Circuit_init(1, 0)
    /\ nAdded = 0
    /\ badAdded = FALSE
    /\ last = NoCall
    /\ optRuns = 0
    /\ sv = Statevector_init(IntV(1), None)
    /\ dm = DensityMatrix_init(IntV(1), None)
    /\ th = [t \in Threads |-> Idle]
    /\ heap = <<>>
    /\ RandAtRest
    /\ NoiseAtRest
    /\ QecAtRest
    /\ fs \in SUBSET Locations
    /\ DbgFresh
    /\ oracle = NoOracle
    /\ ocall = NoOracleCall

dbgRestVars ==
    <<circuitVars, last, stateVars, concVars, randVars, noiseVars, qecVars, orcVars>>

DebuggerCall(op, arg, ok, o) ==
    [op |-> op, arg |-> arg, ok |-> ok, exc |-> [r \in Runs |-> o[r].exc]]

\* The effect of a call that may start a process, with outcome o[r] in run r.
Launching(op, arg, ok, o) ==
    /\ launched' = [r \in Runs |-> launched[r] \o o[r].started]
    /\ dcall' = DebuggerCall(op, arg, ok, o)

\* d = QuantumDebugger(circuit) or QuantumDebugger().
NewDebugger ==
    /\ \E given \in ArgChoices :
         LET o == [r \in Runs |-> QuantumDebugger_init(ArgOf(given, r), fs)] IN
         /\ dbg' = [r \in Runs |-> IF o[r].exc = "none" THEN o[r].self ELSE dbg[r]]
         /\ dcall' = DebuggerCall("QuantumDebugger", [r \in Runs |-> ArgOf(given, r)],
                                  FALSE, o)
    /\ UNCHANGED <<fs, launched>>
    /\ UNCHANGED dbgRestVars

\* d.show(circuit), d.debug(circuit) or d.inspect(circuit), with or without
\* the argument.
DebuggerShow ==
    /\ \A r \in Runs : dbg[r].t = "obj"
    /\ \A r \in Runs : Len(launched[r]) < MaxLaunches
    /\ \E op \in {"show", "debug", "inspect"}, given \in ArgChoices, ok \in BOOLEAN :
         LET o == [r \in Runs |-> QuantumDebugger_show(dbg[r].v, ArgOf(given, r), ok)] IN
         /\ dbg' = [r \in Runs |-> IF o[r].exc = "none" THEN o[r].self ELSE dbg[r]]
         /\ Launching(op, [r \in Runs |-> ArgOf(given, r)], ok, o)
    /\ UNCHANGED fs
    /\ UNCHANGED dbgRestVars

\* show_debugger(circuit) or show_debugger().
ShowDebugger ==
    /\ \A r \in Runs : Len(launched[r]) < MaxLaunches
    /\ \E given \in ArgChoices, ok \in BOOLEAN :
         Launching("show_debugger", [r \in Runs |-> ArgOf(given, r)], ok,
                   [r \in Runs |-> show_debugger(ArgOf(given, r), fs, ok)])
    /\ UNCHANGED <<fs, dbg>>
    /\ UNCHANGED dbgRestVars

\* circuit.debug() or circuit.show() on the run's circuit.
CircuitDebug ==
    /\ \A r \in Runs : Len(launched[r]) < MaxLaunches
    /\ \E op \in {"Circuit.debug", "Circuit.show"}, ok \in BOOLEAN :
         Launching(op, [r \in Runs |-> ObjV(CircuitOf(r))], ok,
                   [r \in Runs |-> IF op = "Circuit.debug"
                                   THEN Circuit_debug(CircuitOf(r), fs, ok)
                                   ELSE Circuit_show(CircuitOf(r), fs, ok)])
    /\ UNCHANGED <<fs, dbg>>
    /\ UNCHANGED dbgRestVars

NextDebug ==
    \/ NewDebugger
    \/ DebuggerShow
    \/ ShowDebugger
    \/ CircuitDebug

DebugSpec == InitDebug /\ [][NextDebug]_vars

\* -------------------------------------------------------------- the oracles
\* The inputs: targets up to one past the largest value MaxBits bits hold,
\* bit lists, clause lists of up to two clauses of up to two literals, and
\* edge lists of up to two edges whose endpoints may lie past num_vertices.
TargetInputs == 0..Shl1(MaxBits)
BitLists(n) == UNION {[1..k -> {0, 1}] : k \in 0..n}
Literals(n) == {l \in (0 - n)..n : l # 0}
Clauses(n) == UNION {[1..k -> Literals(n)] : k \in 0..2}
ClauseLists(n) == UNION {[1..k -> Clauses(n)] : k \in 0..2}
EdgeLists == UNION {[1..k -> (0..MaxVertices) \X (0..MaxVertices)] : k \in 0..2}

\* The bits of vertex v's block that are set in the input.
SetBits(input_bits, v, num_colors) ==
    {c \in 0..(num_colors - 1) :
        v * num_colors + c < Len(input_bits) /\ input_bits[v * num_colors + c + 1] = 1}

\* Inputs in which each vertex's block has at most one bit set.
ColoringInputs(num_vertices, num_colors) ==
    {b \in BitLists(num_vertices * num_colors) :
        \A v \in 0..(num_vertices - 1) : Cardinality(SetBits(b, v, num_colors)) <= 1}

\* The inputs an oracle is called with.
InputsFor(o) ==
    IF o.kind = "database" THEN BitLists(MaxBits)
    ELSE IF o.kind = "sat" THEN [1..o.num_variables -> {0, 1}]
    ELSE ColoringInputs(o.num_vertices, o.num_colors)

InitOracle ==
    /\ circuit = Circuit_init(1, 0)
    /\ nAdded = 0
    /\ badAdded = FALSE
    /\ last = NoCall
    /\ optRuns = 0
    /\ sv = Statevector_init(IntV(1), None)
    /\ dm = DensityMatrix_init(IntV(1), None)
    /\ th = [t \in Threads |-> Idle]
    /\ heap = <<>>
    /\ ExtAtRest

orcRestVars ==
    <<circuitVars, last, stateVars, concVars, randVars, noiseVars, qecVars, dbgVars>>

\* oracle = create_database_oracle(t).
CreateDatabaseOracle ==
    /\ oracle.kind = "none"
    /\ \E t \in TargetInputs : oracle' = create_database_oracle(t)
    /\ UNCHANGED ocall
    /\ UNCHANGED orcRestVars

\* oracle = create_sat_oracle(clauses, n).
CreateSatOracle ==
    /\ oracle.kind = "none"
    /\ \E n \in 1..MaxVars : \E clauses \in ClauseLists(n) :
         oracle' = create_sat_oracle(clauses, n)
    /\ UNCHANGED ocall
    /\ UNCHANGED orcRestVars

\* oracle = create_graph_coloring_oracle(edges, num_vertices, num_colors).
CreateGraphColoringOracle ==
    /\ oracle.kind = "none"
    /\ \E edges \in EdgeLists, nv \in 1..MaxVertices, nc \in 1..MaxColors :
         oracle' = create_graph_coloring_oracle(edges, nv, nc)
    /\ UNCHANGED ocall
    /\ UNCHANGED orcRestVars

\* oracle(input_bits), the first call of the closure: it captures only
\* arguments and assigns nothing, so later calls see the same closure.
OracleCall ==
    /\ oracle.kind # "none"
    /\ ~ocall.called
    /\ \E b \in InputsFor(oracle) :
         ocall' = [called |-> TRUE, input_bits |-> b, ret |-> CallOracle(oracle, b)]
    /\ UNCHANGED oracle
    /\ UNCHANGED orcRestVars

NextOracle ==
    \/ CreateDatabaseOracle
    \/ CreateSatOracle
    \/ CreateGraphColoringOracle
    \/ OracleCall

OracleSpec == InitOracle /\ [][NextOracle]_vars

\* =================================================================== claims
\* Sum of |a|^2 over a sequence of complex amplitudes.
RECURSIVE SumSquares(_)
SumSquares(amps) ==
    IF Len(amps) = 0 THEN 0
    ELSE amps[1].re * amps[1].re + amps[1].im * amps[1].im + SumSquares(Tail(amps))

\* The state object a call returned is normalized: get_amplitudes() returns
\* amplitudes whose squared magnitudes sum to 1, and get_norm() returns 1.
ReturnsNormalized(call) ==
    /\ call.exc = "none"
    /\ call.ret.t = "obj"
    /\ LET a == Statevector_get_amplitudes(call.ret.v)
           n == Statevector_get_norm(call.ret.v)
       IN  /\ a.exc = "none"
           /\ SumSquares(a.ret.v) = 1
           /\ n.exc = "none"
           /\ n.ret.v = 1

\* The initial state passed to the last execute() has another qubit count
\* than the circuit.
MismatchedInitialState ==
    /\ last.arg.t = "obj"
    /\ ~PyEq(last.arg.v.num_qubits, IntV(circuit.num_qubits))

\* C1: execute() on a circuit to which no gate and no measurement has been
\* added, with or without an initial state, fails with ValueError and
\* returns no Statevector.
C1_EmptyCircuitRejected ==
    (last.op = "execute" /\ nAdded = 0)
        => (last.exc = "ValueError" /\ last.ret.t = "None")

\* C2: execute(initial_state) on a non-empty circuit with an initial state
\* of another qubit count fails with ValueError and returns no state.
C2_MismatchIsValueError ==
    (last.op = "execute" /\ nAdded > 0 /\ MismatchedInitialState)
        => (last.exc = "ValueError" /\ last.ret.t = "None")

\* C3: a gate whose qubit indices are out of range or repeated is never
\* executed: when add_gate accepted one, the following execute() fails with
\* ValueError.
C3_InvalidGateNeverExecuted ==
    (last.op = "execute" /\ badAdded) => last.exc = "ValueError"

\* C5: every add_gate call with a supported name and every add_measurement
\* call either raises or appends exactly one gate at the end of the gate
\* sequence, and no call other than optimize shortens the sequence.
C5_AddAppendsOneGate ==
    [][ /\ ( /\ last'.op \in {"add_gate", "add_measurement"}
             /\ <<last, nAdded>>' # <<last, nAdded>>
             /\ (last'.op = "add_gate" => Upper(last'.name) \in SupportedGates) )
           => \/ last'.exc # "none"
              \/ circuit'._circuit.gates =
                     Append(circuit._circuit.gates,
                            [name |-> Upper(last'.name), qubits |-> last'.qubits])
        /\ last'.op # "optimize"
           => /\ Len(circuit'._circuit.gates) >= Len(circuit._circuit.gates)
              /\ SubSeq(circuit'._circuit.gates, 1, Len(circuit._circuit.gates))
                     = circuit._circuit.gates
      ]_vars

\* C7: optimize() is idempotent: a second optimize() right after a first one
\* leaves the gate sequence as the first one left it.
C7_OptimizeIdempotent ==
    [][ (last.op = "optimize" /\ last'.op = "optimize")
           => circuit'._circuit.gates = circuit._circuit.gates ]_vars

\* Witness of C7: optimize() ran twice in a row on a circuit that gates were
\* added to.
C7_Witness == optRuns = 2 /\ last.op = "optimize" /\ nAdded > 0

\* C8: execute() of a non-empty circuit returns a normalized Statevector.
C8_ExecuteReturnsNormalized ==
    (last.op = "execute" /\ nAdded > 0) => ReturnsNormalized(last)

\* C9: the Bell circuit H(0), CNOT(0,1) yields amplitudes 1/sqrt(2) at
\* indices 0 and 3 and 0 at indices 1 and 2 (twice the squared magnitude is
\* 1 at indices 0 and 3, and the amplitude is 0 elsewhere).
C9_BellAmplitudes ==
    last.op = "create_bell_state"
        => /\ last.exc = "none"
           /\ last.ret.t = "obj"
           /\ LET a == Statevector_get_amplitudes(last.ret.v) IN
              /\ a.exc = "none"
              /\ Len(a.ret.v) = 4
              /\ \A i \in {0, 3} : 2 * SumSquares(<<a.ret.v[i + 1]>>) = 1
              /\ \A i \in {1, 2} : a.ret.v[i + 1] = Complex(0, 0)

\* Bit q of index i (qubit 0 is the least significant bit).
RECURSIVE Pow2(_)
Pow2(n) == IF n <= 0 THEN 1 ELSE 2 * Pow2(n - 1)
Bit(i, q) == (i \div Pow2(q)) % 2

\* Every amplitude of state s at an index whose bit q differs from r is 0.
Collapsed(s, q, r) ==
    LET a == Statevector_get_amplitudes(s) IN
    /\ a.exc = "none"
    /\ \A i \in 0..(Len(a.ret.v) - 1) :
         Bit(i, q) # r => a.ret.v[i + 1] = Complex(0, 0)

\* C4: DensityMatrix.apply_gate('CNOT', q) raises NotImplementedError for
\* every qubit q and every density matrix, and leaves the matrix unchanged.
C4_DmCnotNotImplemented ==
    [][ (last'.op = "dm_apply_gate" /\ Upper(last'.name) = <<"C","N","O","T">>)
           => (last'.exc = "NotImplementedError" /\ dm' = dm) ]_vars

\* Witness of C4: apply_gate was called with a spelling of CNOT on a density
\* matrix and raised NotImplementedError.
C4_Witness ==
    /\ last.op = "dm_apply_gate"
    /\ last.name = <<"c","n","o","t">>
    /\ last.exc = "NotImplementedError"
    /\ dm.num_qubits.t = "int"
    /\ last.qubits[1] >= dm.num_qubits.v

\* C10: after measure(q) returned r, a measure(q) that follows with no gate
\* in between returns r again, and every amplitude at an index whose bit q
\* differs from r is 0 (q a qubit of the state).
C10_MeasureCollapses ==
    [][ ( /\ last'.op = "measure"
          /\ sv'.num_qubits.t = "int"
          /\ last'.qubits[1] < sv'.num_qubits.v )
           => /\ (last.op = "measure" /\ last.qubits = last'.qubits)
                    => last'.ret = last.ret
              /\ Collapsed(sv', last'.qubits[1], last'.ret.v) ]_vars

\* What thread t's call returned: the exception, or the object it refers to.
Returned(t) ==
    [exc |-> th[t].res.exc,
     ret |-> IF th[t].res.ref = 0 THEN None ELSE ObjV(heap[th[t].res.ref])]

SameOutcome(a, b) ==
    /\ a.exc = b.exc
    /\ a.ret.t = b.ret.t
    /\ a.ret.t = "obj" => a.ret.v = b.ret.v

\* The objects thread t's call created.
Created(t) == {th[t].tmp, th[t].res.ref} \ {0}

\* C6: execute and execute_density_matrix never modify the circuit, and of
\* two interleaved executions of the same circuit each returns what it
\* returns when run alone, on objects it shares with no other execution.
C6_ExecutionsIndependent ==
    /\ \A t \in Threads : th[t].pc # "idle" => circuit = th[t].c0
    /\ \A t \in Threads : th[t].pc = "done" => SameOutcome(Returned(t), th[t].expect)
    /\ \A t, u \in Threads : t # u => Created(t) \cap Created(u) = {}

\* Witness of C6: both executions are done, one began while the other was
\* between its two steps (its object precedes the other's wrapper in the
\* heap), on a circuit that a measurement was added to, with an initial
\* state of another qubit count.
C6_Witness ==
    /\ \A t \in Threads : th[t].pc = "done" /\ th[t].res.ref # 0
    /\ th[1].tmp < th[2].tmp
    /\ th[2].tmp < th[1].res.ref
    /\ nAdded > 0
    /\ th[1].arg.t = "obj"
    /\ ~PyEq(th[1].arg.v.num_qubits, IntV(circuit.num_qubits))

\* C11: two runs that inject the same seed and make the same sequence of
\* circuit executions and Statevector.measure calls get the same measurement
\* outcomes, whatever else a run calls in between.
C11_SeededRunsAgree ==
    injected.t # "None" => \A r1, r2 \in Runs : outcomes[r1] = outcomes[r2]

\* C15: a call of random_circuit, with or without a seed, leaves the random
\* streams of the process (numpy.random's and random's) as they were.
C15_RandomCircuitLeavesStreams ==
    [][ last'.op = "random_circuit"
           => (nprandom' = nprandom /\ pyrandom' = pyrandom) ]_vars

\* C12: in every run of the n-qubit GHZ circuit (n = 2 is the Bell circuit)
\* the run completes and the measurement outcome of every qubit k in 1..n-1
\* equals the outcome of qubit 0.
C12_GhzOutcomesAgree ==
    last.op = "ghz_run"
        => /\ last.exc = "none"
           /\ last.ret.t = "list"
           /\ \A k \in 1..Len(last.ret.v) : last.ret.v[k] = last.ret.v[1]

\* C18: circuit.h(q) and circuit.cx(c, t) succeed on any Circuit and leave
\* it as add_gate('H', [q]) and add_gate('CNOT', [c, t]) leave it.
C18_ShorthandAddsGate ==
    [][ (last'.op \in {"h", "cx"} /\ last' # last)
           => /\ last'.exc = "none"
              /\ circuit' = Circuit_add_gate(
                                circuit,
                                IF last'.op = "h" THEN <<"H">> ELSE <<"C","N","O","T">>,
                                last'.qubits, 0).self ]_vars

\* C20: execute() on a non-empty circuit of n qubits returns a Statevector
\* whose num_qubits is n, and execute(initial_state = that result) on the
\* same circuit returns a state again.
C20_ExecuteResultReusable ==
    (last.op = "execute" /\ nAdded > 0 /\ last.arg.t = "None")
        => /\ last.exc = "none"
           /\ last.ret.t = "obj"
           /\ PyEq(last.ret.v.num_qubits, IntV(circuit.num_qubits))
           /\ Circuit_execute(circuit, last.ret).exc = "none"

\* C19: a Statevector built from 2^n amplitudes reports num_qubits = n, and
\* a DensityMatrix built from a matrix of 2^n rows reports num_qubits = n.
C19_NumQubitsFromSize ==
    /\ last.op = "from_amplitudes" => PyEq(sv.num_qubits, IntV(last.qubits[1]))
    /\ last.op = "from_matrix" => PyEq(dm.num_qubits, IntV(last.qubits[1]))

\* C13: createTypicalModel() returns a model named 'Typical Hardware Noise'
\* whose channel list is exactly one depolarizing channel with probability
\* 0.001 followed by one relaxation channel with T1 = 50.0 and T2 = 70.0,
\* whatever calls were made before it.
C13_TypicalModelContents ==
    last.op = "createTypicalModel"
        => /\ models[last.ret.v].name = "Typical Hardware Noise"
           /\ models[last.ret.v].channels =
                  << Depolarizing(Float(1, 1000)),
                     Relaxation(Float(50, 1), Float(70, 1)) >>

\* Witness of C13: createTypicalModel() has just returned, after an earlier
\* typical model was created and noise was added to it.
C13_Witness ==
    /\ last.op = "createTypicalModel"
    /\ \E i \in typical : i # last.ret.v /\ Len(models[i].channels) > 2

\* C14: once createTypicalModel() has returned a model, no later operation
\* changes that model's name or channel list.
C14_TypicalModelImmutable ==
    [][ \A i \in typical : models'[i] = models[i] ]_vars

\* C16: for a surface code of any odd distance with no physical error
\* injected, every extracted syndrome is empty, and MWPMDecoder.decode and
\* UnionFindDecoder.decode each return the empty correction for it, without
\* a failure.
C16_NoErrorNoCorrection ==
    nErr = 0 =>
        /\ syndrome = {}
        /\ mwpm.pc = "done" => mwpm.result = Decoded({})
        /\ uf.pc = "done" => uf.result = Decoded({})

\* C16 witness: a distance-5 code without an injected error whose syndrome
\* was extracted and given to both decoders, which have returned.
C16_Witness ==
    /\ dist = 5
    /\ nErr = 0
    /\ nRounds > 0
    /\ mwpm.pc = "done"
    /\ uf.pc = "done"

\* C17: the Union-Find decoder never runs more than d growth rounds on a
\* syndrome of a distance-d code, and once no cluster can grow, and when
\* decode has returned, every cluster has even parity or touches a boundary
\* and decode did not fail.
C17_UnionFindTerminates ==
    /\ uf.rounds <= dist
    /\ uf.pc = "done" =>
         /\ uf.result.exc = "none"
         /\ \A cl \in uf.clusters : ~Odd(cl, syndrome) \/ cl.boundary

\* C17 witness: decode returned on a distance-5 code after two growth rounds
\* that left a cluster of odd parity on the boundary.
C17_Witness ==
    /\ dist = 5
    /\ uf.pc = "done"
    /\ uf.rounds = 2
    /\ \E cl \in uf.clusters : Odd(cl, syndrome) /\ cl.boundary

\* C22: execute_density_matrix(initial_state) with an initial DensityMatrix
\* of another qubit count than the circuit's fails with ValueError (invalid
\* argument) and returns no density matrix.
C22_DmMismatchRejected ==
    (last.op = "execute_density_matrix" /\ MismatchedInitialState)
        => (last.exc = "ValueError" /\ last.ret.t = "None")

\* The upper-case gate names each operation has a branch for.
BranchesOf(op) ==
    IF op = "add_gate" THEN SupportedGates
    ELSE IF op = "sv_apply_gate"
    THEN {<<"H">>, <<"X">>, <<"Y">>, <<"Z">>, <<"R","X">>, <<"R","Y">>, <<"R","Z">>}
    ELSE {<<"H">>, <<"X">>, <<"Y">>, <<"Z">>, <<"C","N","O","T">>}

\* C23: a call of Circuit.add_gate, Statevector.apply_gate or
\* DensityMatrix.apply_gate with a gate name the operation has no branch for
\* raises ValueError and leaves the circuit, the state vector and the density
\* matrix exactly as they were.
C23_UnknownGateRejected ==
    [][ ( /\ last'.op \in {"add_gate", "sv_apply_gate", "dm_apply_gate"}
          /\ Upper(last'.name) \notin BranchesOf(last'.op) )
        => ( /\ last'.exc = "ValueError"
             /\ circuit' = circuit
             /\ sv' = sv
             /\ dm' = dm
             /\ nAdded' = nAdded )
      ]_vars

\* C23 witness: Statevector.apply_gate was called with a name only the
\* circuit knows (SWAP) and raised ValueError, after add_gate had raised it
\* for no gate at all.
C23_Witness ==
    /\ last.op = "sv_apply_gate"
    /\ Upper(last.name) = <<"S","W","A","P">>
    /\ last.exc = "ValueError"
    /\ nAdded > 0

\* C27: a dictionary returned by to_dict() is a snapshot: an
\* add_depolarizing_noise or add_relaxation_noise call on a model leaves the
\* channel list of every dictionary returned before as it was, and appending
\* to a returned dictionary's channel list leaves every model as it was.
C27_ToDictIsSnapshot ==
    [][ /\ last'.op \in {"add_depolarizing_noise", "add_relaxation_noise"}
           => \A k \in 1..Len(dicts) :
                  DictChannels(dicts[k], models') = DictChannels(dicts[k], models)
        /\ last'.op = "dict_append" => models' = models
      ]_vars

\* The calls that construct a QuantumDebugger.
ConstructingCalls ==
    {"QuantumDebugger", "show_debugger", "Circuit.debug", "Circuit.show"}

\* C21: when none of the four locations holds an executable debugger,
\* QuantumDebugger(), show_debugger() and Circuit.debug()/show() raise
\* FileNotFoundError and no process is started.
C21_NotFoundIsFileNotFoundError ==
    (dcall.op \in ConstructingCalls /\ fs = {})
        => \A r \in Runs : dcall.exc[r] = "FileNotFoundError" /\ launched[r] = <<>>

\* C24: for every non-empty set of present locations, including the last
\* one alone, QuantumDebugger() succeeds and its debugger_path is the first
\* present location in the fixed order.
C24_FirstPresentLocation ==
    (dcall.op = "QuantumDebugger" /\ fs # {})
        => \A r \in Runs :
               /\ dcall.exc[r] = "none"
               /\ dbg[r].t = "obj"
               /\ dbg[r].v.debugger_path = StrV(MinOf(fs))

\* C25: a show, debug or inspect call whose launch fails returns normally,
\* leaves debugger_path as it was and leaves the circuit attribute equal to
\* the argument when one was given and as it was otherwise.
C25_ShowNeverRaises ==
    [][ (dcall'.op \in {"show", "debug", "inspect"} /\ ~dcall'.ok)
        => \A r \in Runs :
               /\ dcall'.exc[r] = "none"
               /\ dbg'[r].t = "obj"
               /\ dbg'[r].v.debugger_path = dbg[r].v.debugger_path
               /\ dbg'[r].v.circuit =
                      IF dcall'.arg[r].t # "None" THEN dcall'.arg[r]
                      ELSE dbg[r].v.circuit
               /\ launched'[r] = launched[r]
      ]_vars

\* C25 witness: inspect(circuit) was called on a debugger, the launch
\* failed, and the circuit given in run 2 is the debugger's circuit now.
C25_Witness ==
    /\ dcall.op = "inspect"
    /\ ~dcall.ok
    /\ dcall.arg[2].t = "obj"
    /\ dcall.arg[1].t = "None"
    /\ dbg[2].v.circuit = dcall.arg[2]

C28_DatabaseOracleMatchesTarget ==
    (oracle.kind = "database" /\ ocall.called)
        => ( ocall.ret <=>
               /\ \A i \in 0..(Len(ocall.input_bits) - 1) :
                      Bit(oracle.target_value, i) = ocall.input_bits[i + 1]
               /\ oracle.target_value < Pow2(Len(ocall.input_bits)) )

\* C28 witness: the oracle for 6 returned True, on the list [0, 1, 1].
C28_Witness ==
    /\ oracle.kind = "database"
    /\ oracle.target_value = 6
    /\ ocall.called
    /\ ocall.ret
    /\ ocall.input_bits = <<0, 1, 1>>

\* Literal k holds iff bit k-1 is 1, literal -k iff bit k-1 is 0.
LiteralHolds(l, bits) == IF l > 0 THEN bits[l] = 1 ELSE bits[0 - l] = 0

\* C29: the oracle of create_sat_oracle(clauses, n), for clauses over the
\* variables 1..n and an assignment of length n, returns True exactly when
\* every clause has a literal that holds; an empty clause makes it False and
\* an empty clause list True.
C29_SatOracleMatchesFormula ==
    (oracle.kind = "sat" /\ ocall.called)
        => /\ ocall.ret <=>
                \A c \in 1..Len(oracle.clauses) :
                    \E j \in 1..Len(oracle.clauses[c]) :
                        LiteralHolds(oracle.clauses[c][j], ocall.input_bits)
           /\ (\E c \in 1..Len(oracle.clauses) : oracle.clauses[c] = <<>>) => ~ocall.ret
           /\ oracle.clauses = <<>> => ocall.ret

\* C29 witness: a two-variable instance of two clauses, the second with a
\* negative literal, was evaluated: satisfied by the assignment although its
\* first literal of the second clause fails.
C29_Witness ==
    /\ oracle.kind = "sat"
    /\ oracle.clauses = << <<1>>, <<2, -2>> >>
    /\ ocall.called
    /\ ocall.input_bits = <<1, 0>>
    /\ ocall.ret

\* C30: on an input in which each vertex's block has at most one bit set,
\* the oracle of create_graph_coloring_oracle returns True exactly when no
\* edge with both endpoints below num_vertices joins two vertices that were
\* assigned the same colour.
C30_ColoringOracleMatchesGraph ==
    (oracle.kind = "coloring" /\ ocall.called)
        => ( ocall.ret <=>
               \A e \in 1..Len(oracle.edges) :
                   (oracle.edges[e][1] < oracle.num_vertices
                        /\ oracle.edges[e][2] < oracle.num_vertices)
                   => SetBits(ocall.input_bits, oracle.edges[e][1], oracle.num_colors)
                          \cap SetBits(ocall.input_bits, oracle.edges[e][2],
                                       oracle.num_colors) = {} )

\* C30 witness: an instance whose first edge leaves the graph and whose
\* second edge joins two vertices of colour 1 was rejected.
C30_Witness ==
    /\ oracle.kind = "coloring"
    /\ oracle.edges = << <<0, 2>>, <<0, 1>> >>
    /\ oracle.num_vertices = 2
    /\ oracle.num_colors = 2
    /\ ocall.called
    /\ ocall.input_bits = <<0, 1, 0, 1>>
    /\ ~ocall.ret

====
